---- MODULE Spec2Model ----
(***************************************************************************)
(* goclip: keystroke synthesis into a target window.                       *)
(*                                                                         *)
(* The module models                                                       *)
(*   - the Windows input synthesizer (sendInputCall, pressVK, sendScan,    *)
(*     tapScan, sendUnicodeUnit, releaseModifiers, sendCharPhysical,       *)
(*     sendCharPhysicalFallback, sendEnter) as operators over a log of     *)
(*     SendInput calls,                                                    *)
(*   - the macOS synthesizer (sendKeyPress, sendKeyPressWithMods,          *)
(*     sendASCIICharUS, sendChar) as operators over a log of posted        *)
(*     CGEvents,                                                           *)
(*   - the typing session: the Type / Type Clipboard / Stop handlers, the  *)
(*     macOS global hotkey, the typing goroutine running sendText and the  *)
(*     completion callback posted with fyne.Do,                            *)
(*   - the foreground watcher of the Windows build, with                   *)
(*     startForegroundWatcher and stopForegroundWatcher called in any      *)
(*     order,                                                              *)
(*   - the window option list refreshWindows builds in either build,       *)
(*   - package config (Load, Update, SaveConfig, Get) and package          *)
(*     localization (Labels, ResolveCode, IsSupported).                    *)
(*                                                                         *)
(* The operating system is the environment: the keyboard layout tables,    *)
(* the outcome of every SendInput / CGEventCreateKeyboardEvent call, the   *)
(* outcome of SetWinEventHook and of window activation, and the user's     *)
(* focus changes are nondeterministic choices.                             *)
(***************************************************************************)
EXTENDS Integers, Sequences, FiniteSets, TLC

\* ------------------------------------------------------------------ bounds

\* longest text typed in one session (code points, before normalisation)
MaxLen == 2

\* how many OS calls may fail (or inject partially) while one character is sent
MaxFaults == 1

\* cap on the number of typing goroutines the model can represent at once
MaxTasks == 2

\* ------------------------------------------------- constants of main.go

vkShift == 16
vkControl == 17
vkMenu == 18
vkReturn == 13

\* right-Alt scan code used for AltGr (sent with the extended flag)
scRightAlt == 56

\* default Enter scan code used by sendEnter when the layout maps VK_RETURN to 0
scEnterDefault == 28

\* macOS virtual key codes of sendKeyPressWithMods and sendText
kVK_Shift == 56
kVK_Option == 58
kVK_Return == 36

NoErr == "nil"

\* the error value procSendInput.Call hands back when SendInput injects nothing
ErrSendInput == "SendInput: errno"

\* syscall.EINVAL, returned by windows.UTF16FromString for a string holding NUL
ErrEINVAL == "invalid argument"

\* ------------------------------------------------------------ characters

NUL == 0
LF == 10
CR == 13

\* characters of multi-character texts: the two newline characters and 'a'
CoreAlphabet == {CR, LF, 97}

(* Every character class the synthesizers distinguish: NUL, the line ends,
   U+0001..U+0003 and RS (control characters), '@', 'A', '\', 'a', '~', NBSP,
   SUPERSCRIPT ONE, the euro sign, a CJK ideograph (no key on the layout) and
   two characters outside the Basic Multilingual Plane: U+10061, whose low
   16 bits are those of 'a', and an emoji. *)
Alphabet ==
    {NUL, LF, CR, 1, 2, 3, 30, 64, 65, 92, 97, 126, 160, 185, 8364, 20013,
     65633, 128512}

RECURSIVE SeqsUpTo(_, _)
SeqsUpTo(S, n) ==
    IF n = 0 THEN {<<>>}
    ELSE LET shorter == SeqsUpTo(S, n - 1)
         IN  shorter \cup {Append(s, x) : s \in {t \in shorter : Len(t) = n - 1}, x \in S}

\* the texts a session may be asked to type (inputEntry.Text, the clipboard)
Texts ==
    {<<r>> : r \in Alphabet} \cup {s \in SeqsUpTo(CoreAlphabet, MaxLen) : Len(s) >= 2}

\* ------------------------------------------------------ OS keyboard layout

(* VkKeyScanExW under the layout used by the model, as the 16-bit value the
   OS returns: low byte the virtual key, high byte the modifier state
   (bit 0 Shift, bit 1 Ctrl, bit 2 Alt), 0xFFFF (-1) for "no key".  The
   layout has a key for every modifier state 0..7, characters without a key
   and two characters (one plain, one on AltGr) whose virtual key has no
   scan code. *)
OSVkKeyScanExW(ch, hkl) ==
    CASE ch = LF  -> 512 + 74
      [] ch = CR  -> 13
      [] ch = 97  -> 65
      [] ch = 65  -> 256 + 65
      [] ch = 1   -> 512 + 65
      [] ch = 30  -> 768 + 54
      [] ch = 2   -> 1024 + 66
      [] ch = 3   -> 1280 + 67
      [] ch = 64  -> 1536 + 81
      [] ch = 185 -> 1792 + 49
      [] ch = 160 -> 231
      [] ch = 8364 -> 1536 + 231
      [] OTHER    -> 65535

(* MapVirtualKeyExW(vk, MAPVK_VK_TO_VSC, hkl): 0 when the key has no scan
   code.  The layouts differ in the Return key: scan code 28 under the system
   layout and 00000409, 96 under 00000407, none under 00000411. *)
OSMapVirtualKeyExW(vk, hkl) ==
    CASE vk = 13 -> (IF hkl = "00000407" THEN 96 ELSE IF hkl = "00000411" THEN 0 ELSE 28)
      [] vk = 49 -> 2
      [] vk = 54 -> 7
      [] vk = 65 -> 30
      [] vk = 66 -> 48
      [] vk = 67 -> 46
      [] vk = 74 -> 36
      [] vk = 81 -> 16
      [] OTHER   -> 0

\* the layout handle GetKeyboardLayout(0) returns
SystemHKL == "GetKeyboardLayout(0)"

\* options of layoutSelect the model takes
LayoutOptions == {"Auto (Use System)", "English (US)", "German (DE)", "Japanese (JP)"}

\* ------------------------------------------------------- OS call outcomes

(* What the OS does with the k-th synthesis call made for one character:
   "ok" injects every event asked for, "partial" injects all but the last
   one, "fail" injects none. *)
Outcomes == {"ok", "partial", "fail"}

(* The most OS calls one character costs: two modifier presses, the key
   down and up, two modifier releases. *)
MaxCalls == 2 + 2 + 2

Oracles ==
    {o \in [1..MaxCalls -> Outcomes] :
        Cardinality({k \in 1..MaxCalls : o[k] # "ok"}) <= MaxFaults}


\* state of one synthesis run: the calls issued so far, the number of OS
\* calls made, the error of the last primitive, and the sleeps taken
EmptyRun == [calls |-> <<>>, n |-> 0, err |-> NoErr, sleeps |-> 0]

Failed(st) == st.err # NoErr

Sleep(st) == [st EXCEPT !.sleeps = @ + 1]

WithErr(st, e) == [st EXCEPT !.err = e]

\* ---------------------------------------------- Windows input synthesizer

\* SendInput's return value: the number of events injected out of req
OSSendInput(req, outcome) ==
    CASE outcome = "ok"      -> req
      [] outcome = "partial" -> IF req > 1 THEN req - 1 ELSE req
      [] outcome = "fail"    -> 0

(* sendInputCall: one SendInput call of req events; the error is reported
   only when the OS injected nothing (ret == 0). *)
sendInputCall(st, o, c) ==
    LET k   == st.n + 1
        ret == OSSendInput(c.req, o[k])
    IN  [st EXCEPT !.calls = Append(@, [c EXCEPT !.inj = ret]),
                   !.n     = k,
                   !.err   = IF ret = 0 THEN ErrSendInput ELSE NoErr]

\* one key-down and one key-up of a UTF-16 unit, in a single SendInput call
sendUnicodeUnit(st, o, u) ==
    sendInputCall(st, o,
        [kind |-> "unicode", code |-> u, ext |-> FALSE, down |-> TRUE,
         req |-> 2, inj |-> 0])

pressVK(st, o, vk, down) ==
    sendInputCall(st, o,
        [kind |-> "vk", code |-> vk, ext |-> FALSE, down |-> down,
         req |-> 1, inj |-> 0])

sendScan(st, o, sc, extended, down) ==
    sendInputCall(st, o,
        [kind |-> "scan", code |-> sc, ext |-> extended, down |-> down,
         req |-> 1, inj |-> 0])

tapScan(st, o, sc, extended) ==
    LET d == sendScan(st, o, sc, extended, TRUE)
    IN  IF Failed(d) THEN d ELSE sendScan(d, o, sc, extended, FALSE)

mapVirtualKeyEx(vk, hkl) == OSMapVirtualKeyExW(vk, hkl) % 65536

\* variant: the code point is truncated to 16 bits without the range test
vkKeyScanExTruncating(r, hkl) ==
    LET v == OSVkKeyScanExW(r % 65536, hkl)
    IN  IF v = 65535 THEN [vk |-> 0, shift |-> 0, ok |-> FALSE]
        ELSE [vk |-> v % 256, shift |-> (v \div 256) % 256, ok |-> TRUE]

(* vkKeyScanEx: no key for code points above 0xFFFF and when the OS answers
   -1; otherwise the low byte is the virtual key and the high byte the
   modifier state. *)
vkKeyScanEx(r, hkl) ==
    IF r > 65535 THEN [vk |-> 0, shift |-> 0, ok |-> FALSE]
    ELSE LET v == OSVkKeyScanExW(r % 65536, hkl)
         IN  IF v = 65535 THEN [vk |-> 0, shift |-> 0, ok |-> FALSE]
             ELSE [vk |-> v % 256, shift |-> (v \div 256) % 256, ok |-> TRUE]

HasBit(shift, b) == (shift \div b) % 2 = 1

IsAltGr(shift) == HasBit(shift, 2) /\ HasBit(shift, 4)

\* variant: the scan code the layout reports is used as it is
sendEnterUnchecked(st, o, hkl) == tapScan(st, o, mapVirtualKeyEx(vkReturn, hkl), FALSE)

sendEnter(st, o, hkl) ==
    LET sc == mapVirtualKeyEx(vkReturn, hkl)
    IN  IF sc = 0 THEN tapScan(st, o, scEnterDefault, FALSE)
        ELSE tapScan(st, o, sc, FALSE)

(* windows.UTF16FromString(string(r)): EINVAL when the string holds a NUL;
   otherwise the UTF-16 units of r followed by the terminating NUL. *)
UTF16FromString(r) ==
    IF r = NUL THEN [err |-> ErrEINVAL, units |-> <<>>]
    ELSE IF r > 65535
         THEN [err |-> NoErr,
               units |-> <<55296 + ((r - 65536) \div 1024),
                           56320 + ((r - 65536) % 1024), 0>>]
         ELSE [err |-> NoErr, units |-> <<r, 0>>]

RECURSIVE SendUnits(_, _, _)
SendUnits(st, o, units) ==
    IF units = <<>> THEN WithErr(st, NoErr)
    ELSE IF Head(units) = 0 THEN SendUnits(st, o, Tail(units))
    ELSE LET s == sendUnicodeUnit(st, o, Head(units))
         IN  IF Failed(s) THEN s ELSE SendUnits(Sleep(s), o, Tail(units))

sendCharPhysicalFallback(st, o, r) ==
    LET u == UTF16FromString(r)
    IN  IF u.err # NoErr THEN WithErr(st, u.err) ELSE SendUnits(st, o, u.units)

\* faulty variant of releaseModifiers: Alt and Ctrl are released one by one
\* even when the pair was pressed as AltGr
releaseModifiersByKey(st, o, shift) ==
    LET m == IF HasBit(shift, 4) THEN pressVK(st, o, vkMenu, FALSE) ELSE st
        c == IF HasBit(shift, 2) THEN pressVK(m, o, vkControl, FALSE) ELSE m
    IN  IF HasBit(shift, 1) THEN pressVK(c, o, vkShift, FALSE) ELSE c

\* variant: the modifiers are released in the order of their presses
releaseModifiersShiftFirst(st, o, shift) ==
    LET s == IF HasBit(shift, 1) THEN pressVK(st, o, vkShift, FALSE) ELSE st
    IN  IF IsAltGr(shift) THEN sendScan(s, o, scRightAlt, TRUE, FALSE)
        ELSE LET c == IF HasBit(shift, 2) THEN pressVK(s, o, vkControl, FALSE) ELSE s
             IN  IF HasBit(shift, 4) THEN pressVK(c, o, vkMenu, FALSE) ELSE c

\* releaseModifiers ignores the errors of the releases it issues
releaseModifiers(st, o, shift) ==
    LET a == IF IsAltGr(shift) THEN sendScan(st, o, scRightAlt, TRUE, FALSE)
             ELSE LET m == IF HasBit(shift, 4) THEN pressVK(st, o, vkMenu, FALSE) ELSE st
                  IN  IF HasBit(shift, 2) THEN pressVK(m, o, vkControl, FALSE) ELSE m
        s == IF HasBit(shift, 1) THEN pressVK(a, o, vkShift, FALSE) ELSE a
    IN  s

isExtendedVK(vk) == vk \in {37, 38, 39, 40, 33, 34, 35, 36, 45, 46}

\* a tap that returns its error at once, the modifiers left as they are
TapAndReturn(st, o, sc, vk, shift) ==
    LET t == tapScan(st, o, sc, isExtendedVK(vk))
    IN  IF Failed(t) THEN t
        ELSE Sleep(WithErr(releaseModifiers(t, o, shift), NoErr))

\* the tap of the key and what follows it in sendCharPhysical
TapAndRelease(st, o, sc, vk, shift) ==
    LET t == tapScan(st, o, sc, isExtendedVK(vk))
    IN  IF Failed(t) THEN WithErr(releaseModifiers(t, o, shift), t.err)
        ELSE Sleep(WithErr(releaseModifiers(t, o, shift), NoErr))

\* the modifier presses of sendCharPhysical after Shift
PressCtrlAlt(st, o, sc, vk, shift) ==
    IF IsAltGr(shift)
    THEN LET g == sendScan(st, o, scRightAlt, TRUE, TRUE)
         IN  IF Failed(g) THEN WithErr(releaseModifiers(g, o, shift), g.err)
             ELSE TapAndRelease(g, o, sc, vk, shift)
    ELSE LET c == IF HasBit(shift, 2) THEN pressVK(st, o, vkControl, TRUE) ELSE st
         IN  IF Failed(c) THEN c
             ELSE LET m == IF HasBit(shift, 4) THEN pressVK(c, o, vkMenu, TRUE) ELSE c
                  IN  IF Failed(m) THEN m ELSE TapAndRelease(m, o, sc, vk, shift)

sendCharPhysical(st, o, r, hkl) ==
    LET ks == vkKeyScanEx(r, hkl)
        sc == mapVirtualKeyEx(ks.vk, hkl)
    IN  IF ~ks.ok THEN sendCharPhysicalFallback(st, o, r)
        ELSE IF sc = 0 THEN sendCharPhysicalFallback(st, o, r)
        ELSE LET s == IF HasBit(ks.shift, 1) THEN pressVK(st, o, vkShift, TRUE) ELSE st
             IN  IF Failed(s) THEN s ELSE PressCtrlAlt(s, o, sc, ks.vk, ks.shift)


\* ------------------------------------------------ macOS input synthesizer

\* CGEventPost of a key event with the given key code
Post(st, kind, code, down) ==
    [st EXCEPT !.calls = Append(@,
        [kind |-> kind, code |-> code, ext |-> FALSE, down |-> down,
         req |-> 1, inj |-> 1])]

\* whether the next CGEventCreateKeyboardEvent call returns an event
Creates(st, o) == o[st.n + 1] # "fail"

Created(st) == [st EXCEPT !.n = @ + 1]

\* create one key event and post it; msg is the error when creation fails
CreateAndPost(st, o, code, down, msg) ==
    IF Creates(st, o) THEN WithErr(Post(Created(st), "key", code, down), NoErr)
    ELSE WithErr(Created(st), msg)

\* "if up != 0 { post }": a release on an error path, dropped when it fails
PostIfCreated(st, o, code, down) ==
    IF Creates(st, o) THEN Post(Created(st), "key", code, down) ELSE Created(st)

\* both events are created before either is posted
sendKeyPress(st, o, keyCode) ==
    IF ~Creates(st, o) THEN WithErr(Created(st), "failed to create key down event")
    ELSE LET d == Created(st)
         IN  IF ~Creates(d, o) THEN WithErr(Created(d), "failed to create key up event")
             ELSE WithErr(Post(Post(Created(d), "key", keyCode, TRUE),
                               "key", keyCode, FALSE), NoErr)

\* the releases of sendKeyPressWithMods after the key tap succeeded
ReleaseAfterTap(st, o, needShift, needOption) ==
    LET u == IF needShift
             THEN CreateAndPost(st, o, kVK_Shift, FALSE, "failed to create shift up event")
             ELSE st
    IN  IF Failed(u) THEN u
        ELSE IF needOption
             THEN CreateAndPost(u, o, kVK_Option, FALSE, "failed to create option up event")
             ELSE WithErr(u, NoErr)

\* the releases of sendKeyPressWithMods after the key tap failed
ReleaseOnTapError(st, o, needShift, needOption) ==
    LET u == IF needShift THEN PostIfCreated(st, o, kVK_Shift, FALSE) ELSE st
    IN  IF needOption THEN PostIfCreated(u, o, kVK_Option, FALSE) ELSE u

sendKeyPressWithMods(st, o, keyCode, needShift, needOption) ==
    LET a == IF needOption
             THEN CreateAndPost(st, o, kVK_Option, TRUE, "failed to create option down event")
             ELSE st
    IN  IF Failed(a) THEN a
        ELSE LET b == IF needShift
                      THEN CreateAndPost(a, o, kVK_Shift, TRUE,
                                         "failed to create shift down event")
                      ELSE a
             IN  IF Failed(b)
                 THEN WithErr(IF needOption THEN PostIfCreated(b, o, kVK_Option, FALSE)
                              ELSE b, b.err)
                 ELSE LET t == sendKeyPress(b, o, keyCode)
                      IN  IF Failed(t)
                          THEN WithErr(ReleaseOnTapError(t, o, needShift, needOption), t.err)
                          ELSE ReleaseAfterTap(t, o, needShift, needOption)

\* the US ANSI table of sendASCIICharUS: <<character, key code, shift>>
USKeys ==
    {
     <<32, 49, FALSE>>, <<33, 18, TRUE>>, <<34, 39, TRUE>>, <<35, 20, TRUE>>,
     <<36, 21, TRUE>>, <<37, 23, TRUE>>, <<38, 26, TRUE>>, <<39, 39, FALSE>>,
     <<40, 25, TRUE>>, <<41, 29, TRUE>>, <<42, 28, TRUE>>, <<43, 24, TRUE>>,
     <<44, 43, FALSE>>, <<45, 27, FALSE>>, <<46, 47, FALSE>>, <<47, 44, FALSE>>,
     <<48, 29, FALSE>>, <<49, 18, FALSE>>, <<50, 19, FALSE>>, <<51, 20, FALSE>>,
     <<52, 21, FALSE>>, <<53, 23, FALSE>>, <<54, 22, FALSE>>, <<55, 26, FALSE>>,
     <<56, 28, FALSE>>, <<57, 25, FALSE>>, <<58, 41, TRUE>>, <<59, 41, FALSE>>,
     <<60, 43, TRUE>>, <<61, 24, FALSE>>, <<62, 47, TRUE>>, <<63, 44, TRUE>>,
     <<64, 19, TRUE>>, <<91, 33, FALSE>>, <<92, 42, FALSE>>, <<93, 30, FALSE>>,
     <<94, 22, TRUE>>, <<95, 27, TRUE>>, <<96, 50, FALSE>>, <<97, 0, FALSE>>,
     <<98, 11, FALSE>>, <<99, 8, FALSE>>, <<100, 2, FALSE>>, <<101, 14, FALSE>>,
     <<102, 3, FALSE>>, <<103, 5, FALSE>>, <<104, 4, FALSE>>, <<105, 34, FALSE>>,
     <<106, 38, FALSE>>, <<107, 40, FALSE>>, <<108, 37, FALSE>>, <<109, 46, FALSE>>,
     <<110, 45, FALSE>>, <<111, 31, FALSE>>, <<112, 35, FALSE>>, <<113, 12, FALSE>>,
     <<114, 15, FALSE>>, <<115, 1, FALSE>>, <<116, 17, FALSE>>, <<117, 32, FALSE>>,
     <<118, 9, FALSE>>, <<119, 13, FALSE>>, <<120, 7, FALSE>>, <<121, 16, FALSE>>,
     <<122, 6, FALSE>>, <<123, 33, TRUE>>, <<124, 42, TRUE>>, <<125, 30, TRUE>>,
     <<126, 50, TRUE>>
    }

USEntry(r) == CHOOSE e \in USKeys : e[1] = r

InUSKeys(r) == \E e \in USKeys : e[1] = r

\* sendASCIICharUS that leaves Shift out for the upper-case letters
sendASCIICharUSUnshifted(st, o, r) ==
    IF r >= 65 /\ r <= 90
    THEN LET lower == r - 65 + 97
         IN  IF InUSKeys(lower)
             THEN [handled |-> TRUE,
                   run |-> sendKeyPressWithMods(st, o, USEntry(lower)[2], FALSE, FALSE)]
             ELSE [handled |-> FALSE, run |-> st]
    ELSE IF InUSKeys(r)
         THEN [handled |-> TRUE,
               run |-> sendKeyPressWithMods(st, o, USEntry(r)[2], USEntry(r)[3], FALSE)]
         ELSE [handled |-> FALSE, run |-> st]

\* sendASCIICharUS: handled says whether the character was sent with key codes
sendASCIICharUS(st, o, r) ==
    IF r >= 65 /\ r <= 90
    THEN LET lower == r - 65 + 97
         IN  IF InUSKeys(lower)
             THEN [handled |-> TRUE,
                   run |-> sendKeyPressWithMods(st, o, USEntry(lower)[2], TRUE, FALSE)]
             ELSE [handled |-> FALSE, run |-> st]
    ELSE IF InUSKeys(r)
         THEN [handled |-> TRUE,
               run |-> sendKeyPressWithMods(st, o, USEntry(r)[2], USEntry(r)[3], FALSE)]
         ELSE [handled |-> FALSE, run |-> st]

\* no call of sendASCIICharUS
NoAsciiCall ==
    [r |-> NUL, o |-> [k \in 1..MaxCalls |-> "ok"], done |-> TRUE, handled |-> FALSE,
     run |-> EmptyRun]

\* the runes sendASCIICharUS is called with: ASCII, and some beyond it
AsciiRunes == (0..127) \cup {160, 228, 8364, 128512}

AsciiCalls ==
    {[r |-> r, o |-> o, done |-> FALSE, handled |-> FALSE, run |-> EmptyRun] :
        r \in AsciiRunes, o \in Oracles}

\* the UTF-16 units sendChar sends for r
UnitsOf(r) ==
    IF r > 65535
    THEN <<((r - 65536) \div 1024) + 55296, ((r - 65536) % 1024) + 56320>>
    ELSE <<r % 65536>>

RECURSIVE SendCharUnits(_, _, _)
SendCharUnits(st, o, units) ==
    IF units = <<>> THEN WithErr(st, NoErr)
    ELSE IF ~Creates(st, o)
         THEN WithErr(Created(st), "failed to create unicode key down event")
    ELSE LET d == Created(st)
         IN  IF ~Creates(d, o)
             THEN WithErr(Created(d), "failed to create unicode key up event")
             ELSE SendCharUnits(
                      Post(Post(Created(d), "unicode", Head(units), TRUE),
                           "unicode", Head(units), FALSE),
                      o, Tail(units))

sendChar(st, o, r) == SendCharUnits(st, o, UnitsOf(r))

(* mapRuneToKey under the input source used by the model: the key and the
   modifier mask (1 Shift, 2 Option) that type the character, found FALSE
   when no key does. *)
OSmapRuneToKey(r) ==
    CASE r = 97 -> [found |-> TRUE, code |-> 0, mods |-> 0]
      [] r = 65 -> [found |-> TRUE, code |-> 0, mods |-> 1]
      [] r = 64 -> [found |-> TRUE, code |-> 37, mods |-> 2]
      [] r = 92 -> [found |-> TRUE, code |-> 26, mods |-> 3]
      [] OTHER  -> [found |-> FALSE, code |-> 0, mods |-> 0]

\* the candidates of buildLayoutMapping: printable ASCII and German specifics
Candidates == (32..126) \cup {228, 246, 252, 196, 214, 220, 223, 8364, 167, 176}

\* the cache buildLayoutMapping leaves in layoutMap
layoutMap ==
    [r \in {c \in Candidates : OSmapRuneToKey(c).found} |->
        [code   |-> OSmapRuneToKey(r).code,
         shift  |-> (OSmapRuneToKey(r).mods % 2) = 1,
         option |-> ((OSmapRuneToKey(r).mods \div 2) % 2) = 1]]


\* the candidates in the order buildLayoutMapping takes them
candidates ==
    [i \in 1..95 |-> 31 + i] \o <<228, 246, 252, 196, 214, 220, 223, 8364, 167, 176>>

\* the entry buildLayoutMapping stores for what mapRuneToKey answered
keyMods(m) ==
    [code |-> m.code, shift |-> (m.mods % 2) = 1, option |-> ((m.mods \div 2) % 2) = 1]

\* buildLayoutMapping has returned: layoutMapMu is free, the cache is filled
NoBuild == [pc |-> "done", next |-> Len(candidates) + 1, holds |-> FALSE, cache |-> layoutMap]

\* buildLayoutMapping is about to take layoutMapMu
BuildStart ==
    [pc |-> "start", next |-> 1, holds |-> FALSE,
     cache |-> [r \in {} |-> keyMods(OSmapRuneToKey(NUL))]]

\* ------------------------------------------------------------- strings

\* strings the program inspects are sequences of code points
RECURSIVE ToLower(_)
ToLower(s) ==
    IF s = <<>> THEN <<>>
    ELSE <<IF Head(s) >= 65 /\ Head(s) <= 90 THEN Head(s) + 32 ELSE Head(s)>>
         \o ToLower(Tail(s))

IsSpace(c) == c \in {9, 10, 11, 12, 13, 32, 133, 160}

RECURSIVE TrimLeft(_)
TrimLeft(s) == IF s # <<>> /\ IsSpace(Head(s)) THEN TrimLeft(Tail(s)) ELSE s

RECURSIVE TrimRight(_)
TrimRight(s) ==
    IF s # <<>> /\ IsSpace(s[Len(s)]) THEN TrimRight(SubSeq(s, 1, Len(s) - 1)) ELSE s

TrimSpace(s) == TrimRight(TrimLeft(s))


Contains(s, sub) == \E k \in 0..(Len(s) - Len(sub)) : SubSeq(s, k + 1, k + Len(sub)) = sub

\* the rune limit of the window list and of the last-active label
TitleLimit == 30

truncateRunes(s, n) ==
    LET r == TrimSpace(s)
    IN  IF Len(r) <= n THEN s
        ELSE IF n <= 3 THEN SubSeq(r, 1, n)
        ELSE SubSeq(r, 1, n) \o <<46, 46, 46>>

\* ------------------------------------------------------------- windows

\* the window (Windows: HWND, macOS: PID) standing for "none"
NoWindow == 0

\* goclip's own window
WinSelf == 1

(* The top-level windows a desktop may hold: goclip itself, two ordinary
   applications, one of them with blanks around its title, the desktop
   shell surface, a window without a title, an application whose executable
   cannot be read, one with a lower-case title, a second terminal titled in
   capitals, and a hidden window. *)
OSWindows == {WinSelf, 2, 3, 4, 5, 6, 7, 8, 9}

\* the desktop on which the foreground tracker is followed
TrackDesktop == {WinSelf, 2, 3, 4, 5, 6}

\* the desktop on which texts are typed: goclip and one other application
SessionDesktop == {WinSelf, 2}

\* GetWindowTextW (Windows) / the application's localized name (macOS)
OSWindowText(h) ==
    CASE h = WinSelf -> <<103, 111, 99, 108, 105, 112>>
      [] h = 2 -> <<84, 101, 114, 109>>
      [] h = 3 -> <<32, 69, 100, 32>>
      [] h = 4 -> <<80, 114, 111, 103, 114, 97, 109, 32, 77, 97, 110, 97, 103, 101, 114>>
      [] h = 5 -> <<>>
      [] h = 6 -> <<77, 97, 105, 108>>
      [] h = 7 -> <<110, 97, 110, 111>>
      [] h = 8 -> <<84, 69, 82, 77>>
      [] h = 9 -> <<78, 111, 116, 101, 115>>
      [] OTHER -> <<>>

\* base name of the executable owning the window, "" when it cannot be read
OSWindowExe(h) ==
    CASE h = WinSelf -> "goclip.exe"
      [] h = 2 -> "term.exe"
      [] h = 3 -> "ed.exe"
      [] h = 4 -> "explorer.exe"
      [] h = 5 -> "svc.exe"
      [] h = 6 -> ""
      [] h = 7 -> "nano.exe"
      [] h = 8 -> "term.exe"
      [] h = 9 -> "notes.exe"
      [] OTHER -> ""

\* IsWindowVisible (Windows) / on screen at layer 0 (macOS)
OSWindowVisible(h) == h # 9

selfExeLower == "goclip.exe"

ignoredProcessNamesLower == {"goclip.exe"}

ignoredTitleSubstringsLower == {<<116, 97, 115, 107, 32, 115, 119, 105, 116, 99, 104>>, <<112, 114, 111, 103, 114, 97, 109, 32, 109, 97, 110, 97, 103, 101, 114>>}

getWindowText(hwnd) == OSWindowText(hwnd)

\* variant: every window counts as visible
isWindowVisibleAlways(hwnd) == TRUE

isWindowVisible(hwnd) == OSWindowVisible(hwnd)

\* macOS: the application names enumWindows skips, "goclip" among them
ignoredAppNamesLower == {<<103, 111, 99, 108, 105, 112>>}

\* macOS: selfAppNameLower
selfAppNameLower == <<103, 111, 99, 108, 105, 112>>

\* Go's < on strings: byte order, which is the order of the code points
RECURSIVE StringLess(_, _)
StringLess(a, b) ==
    IF b = <<>> THEN FALSE
    ELSE IF a = <<>> THEN TRUE
    ELSE IF Head(a) # Head(b) THEN Head(a) < Head(b)
    ELSE StringLess(Tail(a), Tail(b))

windowInfo(hwnd) == [Hwnd |-> hwnd, Title |-> TrimSpace(getWindowText(hwnd))]

\* variant: the titles are compared as they are
lessByTitle(a, b) == StringLess(a.Title, b.Title)

\* the less function enumWindows hands to sort.Slice
less(a, b) == StringLess(ToLower(a.Title), ToLower(b.Title))

\* the inner loop of the insertion sort: x moves left past what it is less than
RECURSIVE InsertLast(_, _)
InsertLast(sorted, x) ==
    IF sorted # <<>> /\ less(x, sorted[Len(sorted)])
    THEN Append(InsertLast(SubSeq(sorted, 1, Len(sorted) - 1), x), sorted[Len(sorted)])
    ELSE Append(sorted, x)

\* sort.Slice on fewer than 12 elements: an insertion sort
RECURSIVE sortSlice(_)
sortSlice(data) ==
    IF data = <<>> THEN <<>>
    ELSE InsertLast(sortSlice(SubSeq(data, 1, Len(data) - 1)), data[Len(data)])

RECURSIVE Ascending(_)
Ascending(S) ==
    IF S = {} THEN <<>>
    ELSE LET m == CHOOSE x \in S : \A y \in S : x <= y
         IN  <<m>> \o Ascending(S \ {m})

Reverse(s) == [k \in 1..Len(s) |-> s[Len(s) + 1 - k]]

getWindowProcessExeBase(hwnd) == OSWindowExe(hwnd)

shouldIgnoreWindow(hwnd, title, selfExe) ==
    LET t   == ToLower(TrimSpace(title))
        exe == getWindowProcessExeBase(hwnd)
    IN  \/ t = <<>>
        \/ \E sub \in ignoredTitleSubstringsLower : Contains(t, sub)
        \/ exe # "" /\ (exe = selfExe \/ exe \in ignoredProcessNamesLower)

\* whether the hook callback hands the window hwnd to onChange
CallbackAccepts(hwnd) ==
    /\ hwnd # NoWindow
    /\ TrimSpace(getWindowText(hwnd)) # <<>>
    /\ ~shouldIgnoreWindow(hwnd, TrimSpace(getWindowText(hwnd)), selfExeLower)


\* ---------------------------------------------------------------- state

VARIABLES
    platform,               \* "windows" or "darwin": the build that runs
    desktop,                \* OS: the top-level windows that exist
    winMap,                 \* winMap: label of the window list -> window
    wins,                   \* the result of the last enumWindows call
    foregroundEventHook,    \* Windows: the installed WinEvent hook, 0 when none
    foregroundCallbackRef,  \* Windows: the callback kept alive for the hook
    fgEvents,               \* Windows: foreground events the OS has not delivered yet
    foreground,             \* the window the OS has in the foreground
    lastActiveHandle,       \* lastActiveHandle / lastActivePID
    lastActiveTitle,        \* lastActiveTitle
    abortOnFocusChange,     \* config: current.AbortOnFocusChange
    typingStopRequested,    \* the stop flag (under typingMu)
    isCurrentlyTyping,      \* macOS: the typing state read by the hotkey callback
    buttons,                \* actionContainer: "type" (Type, Type Clipboard) or "stop"
    status,                 \* the status label
    ui,                     \* the UI thread: idle, or inside a Type handler's settle delay
    hotkeyQueue,            \* macOS: hotkey callbacks posted with fyne.Do, not yet run
    tasks,                  \* the typing goroutines that exist
    log,                    \* the synthesis calls of the sessions in progress, in order
    delayCall,              \* the last call of getPerCharDelay: its inputs and result
    keyCall,                \* one pass of the sendText loop: its inputs and the calls made
    laMu,                   \* laMu: whether a writer holds it, how many readers do
    tracker,                \* the tracker update in progress, step by step
    reader,                 \* the Type handler's read of the last-active pair, step by step
    command,                \* the last Type command: what was selected, the OS's answer
    hklCall,                \* one call of loadHKLByName: the name, the OS call made, the handle
    asciiCall,              \* one call of sendASCIICharUS: the character, the OS, the events posted
    build,                  \* macOS: buildLayoutMapping step by step: the lock, the candidate, the cache
    watch,                  \* Windows: the hooks the OS holds for this process, the watcher calls made
    config,                 \* package config: current, the file at configPath, the calls of Load and Update in progress
    listing,                \* refreshWindows on one enumeration: what the OS lists, the options and winMap built
    langCall                \* package localization: one language code and what Labels, ResolveCode and IsSupported return for it

vars ==
    <<platform, desktop, winMap, wins, foregroundEventHook, foregroundCallbackRef, fgEvents, foreground,
      lastActiveHandle, lastActiveTitle, abortOnFocusChange, typingStopRequested,
      isCurrentlyTyping, buttons, status, ui, hotkeyQueue, tasks, log, delayCall,
      keyCall, laMu, tracker, reader, command, hklCall, asciiCall, build, watch, config, listing, langCall>>

\* the state of the locked section of the tracker and of the Type handler
lockVars == <<laMu, tracker, reader>>

\* what the computations studied on their own leave behind
calcVars == <<delayCall, keyCall, laMu, tracker, reader, command, hklCall, asciiCall, build, watch, config, listing, langCall>>

watchVars ==
    <<desktop, winMap, wins, foregroundEventHook, foregroundCallbackRef, fgEvents, foreground,
      lastActiveHandle, lastActiveTitle>>

sessionVars ==
    <<typingStopRequested, isCurrentlyTyping, buttons, status, ui, hotkeyQueue,
      tasks, log>>

\* most foreground events waiting for the UI thread's message loop
MaxPending == 1

\* most hotkey callbacks waiting for the UI thread
MaxHotkeys == 1

Status(text) == [text |-> text, title |-> <<>>, err |-> ""]

StatusTitle(text, title) == [text |-> text, title |-> title, err |-> ""]

StatusErr(text, err) == [text |-> text, title |-> <<>>, err |-> err]

UIIdle == [pc |-> "idle", kind |-> "", hwnd |-> NoWindow, title |-> <<>>]

\* the handle SetWinEventHook returns on success
HookHandle == 1

\* the callback pointer windows.NewCallback returns
CallbackPtr == 1

\* most calls of startForegroundWatcher and stopForegroundWatcher considered
MaxWatchCalls == 6

\* no hook asked of the OS yet, no call of the watcher made
NoWatch == [installed |-> {}, issued |-> 0, calls |-> 0, last |-> "none", err |-> FALSE]

(* startForegroundWatcher: the callback is created and kept in
   foregroundCallbackRef, then SetWinEventHook is called; r is its result,
   zero or the handle of a new hook.  Every call creates a new callback. *)
startForegroundWatcher(r) ==
    /\ foregroundCallbackRef' = CallbackPtr + watch.calls
    /\ IF r = 0
       THEN /\ UNCHANGED foregroundEventHook
            /\ watch' = [watch EXCEPT !.calls = @ + 1, !.last = "start", !.err = TRUE]
       ELSE /\ foregroundEventHook' = r
            /\ watch' = [watch EXCEPT !.installed = @ \cup {r}, !.issued = @ + 1,
                                      !.calls = @ + 1, !.last = "start",
                                      !.err = FALSE]

(* stopForegroundWatcher: UnhookWinEvent on the stored handle when there is
   one (unhooked is the OS's answer, which the code does not read), then both
   globals are zeroed. *)
stopForegroundWatcher(unhooked) ==
    /\ foregroundEventHook' = 0
    /\ foregroundCallbackRef' = 0
    /\ watch' = [watch EXCEPT
                     !.installed = IF foregroundEventHook # 0 /\ unhooked
                                   THEN @ \ {foregroundEventHook} ELSE @,
                     !.calls = @ + 1, !.last = "stop", !.err = FALSE]

WatcherUnchanged ==
    /\ UNCHANGED <<platform, desktop, winMap, wins, fgEvents, foreground,
                   lastActiveHandle, lastActiveTitle, abortOnFocusChange>>
    /\ UNCHANGED sessionVars
    /\ UNCHANGED <<delayCall, keyCall, laMu, tracker, reader, command, hklCall,
                   asciiCall, build, config, listing, langCall>>

\* a call of startForegroundWatcher, with the OS's answer to SetWinEventHook
WatcherStarts ==
    /\ watch.calls < MaxWatchCalls
    /\ \E r \in {0, HookHandle + watch.issued} : startForegroundWatcher(r)
    /\ WatcherUnchanged

\* a call of stopForegroundWatcher, with the OS's answer to UnhookWinEvent
WatcherStops ==
    /\ watch.calls < MaxWatchCalls
    /\ \E unhooked \in BOOLEAN : stopForegroundWatcher(unhooked)
    /\ WatcherUnchanged

\* -------------------------------------------------- package localization

\* defaultCode: "en"
defaultCode == <<101, 110>>

\* languageMap: the languages by their code, each with its label set
languageMap ==
    (<<101, 110>> :> [Code |-> <<101, 110>>, labels |-> "English"])
    @@ (<<100, 101>> :> [Code |-> <<100, 101>>, labels |-> "Deutsch"])

\* strings.Index(s, "-"): the index of the first '-', from 0, or -1
RECURSIVE IndexHyphen(_)
IndexHyphen(s) ==
    IF s = <<>> THEN -1
    ELSE IF Head(s) = 45 THEN 0
    ELSE LET rest == IndexHyphen(Tail(s))
         IN  IF rest = -1 THEN -1 ELSE rest + 1

normalizeCode(code) ==
    LET c   == TrimSpace(ToLower(code))
        idx == IndexHyphen(c)
        cut == IF idx > 0 THEN SubSeq(c, 1, idx) ELSE c
    IN  IF c = <<>> THEN <<>>
        ELSE IF Len(cut) > 2 THEN SubSeq(cut, 1, 2) ELSE cut

ResolveCode(code) ==
    LET normalized == normalizeCode(code)
    IN  IF normalized # <<>> /\ normalized \in DOMAIN languageMap THEN normalized
        ELSE defaultCode

IsSupported(code) == normalizeCode(code) \in DOMAIN languageMap

\* Labels: the label set of the code as it is given, else the default one
Labels(code) ==
    IF code \in DOMAIN languageMap THEN languageMap[code].labels
    ELSE languageMap[defaultCode].labels

\* longest language code considered
MaxCodeLen == 4

\* the characters of the language codes considered: d, e, n, f, D, '-', ' '
CodeAlphabet == {100, 101, 110, 102, 68, 45, 32}

\* no call made
NoLangCall ==
    [code |-> <<>>, done |-> TRUE, labels |-> "", resolved |-> <<>>, supported |-> FALSE]

\* Labels, ResolveCode and IsSupported return for the code drawn
LabelsReturns ==
    /\ ~langCall.done
    /\ langCall' = [langCall EXCEPT !.done = TRUE,
                                    !.labels = Labels(langCall.code),
                                    !.resolved = ResolveCode(langCall.code),
                                    !.supported = IsSupported(langCall.code)]
    /\ UNCHANGED <<platform, abortOnFocusChange>>
    /\ UNCHANGED watchVars
    /\ UNCHANGED sessionVars
    /\ UNCHANGED <<delayCall, keyCall, laMu, tracker, reader, command, hklCall,
                   asciiCall, build, watch, config, listing>>

\* ------------------------------------------------------- package config

\* DefaultConfig of package config
DefaultConfig ==
    [DefaultSpeedOption |-> "default", CustomSpeedMs |-> 0,
     KeyboardLayout |-> "Auto (Use System)", CompatibilityMode |-> "auto",
     AbortOnFocusChange |-> TRUE, Language |-> ""]

\* `var cfg Config`: the zero value json.Unmarshal fills
ZeroConfig ==
    [DefaultSpeedOption |-> "", CustomSpeedMs |-> 0, KeyboardLayout |-> "",
     CompatibilityMode |-> "", AbortOnFocusChange |-> FALSE, Language |-> ""]

\* the upper clamp Load puts on CustomSpeedMs
MaxCustomSpeedMs == 10000

(* The JSON objects a config file may hold: under each key of the struct's
   tags the value, if the key is there (a sequence of length 0 or 1). *)
JSONObjects ==
    [defaultSpeedOption : {<<>>, <<"">>, <<"slow">>},
     customSpeedMs      : {<<>>, <<-1>>, <<0>>, <<50>>, <<MaxCustomSpeedMs>>,
                           <<MaxCustomSpeedMs + 1>>},
     keyboardLayout     : {<<>>, <<"">>, <<"German (DE)">>},
     compatibilityMode  : {<<>>, <<"">>, <<"forceOn">>},
     abortOnFocusChange : {<<>>, <<FALSE>>},
     language           : {<<>>, <<"de">>}]

\* the file at configPath when there is none
NoFile == [kind |-> "missing", obj |-> [k \in {} |-> <<>>]]

(* What os.ReadFile and json.Unmarshal can meet at configPath: no file, a
   file that cannot be read, a text that is not the JSON of a Config, or a
   JSON object. *)
ConfigFiles ==
    {NoFile,
     [kind |-> "unreadable", obj |-> [k \in {} |-> <<>>]],
     [kind |-> "invalid", obj |-> [k \in {} |-> <<>>]]}
    \cup {[kind |-> "json", obj |-> o] : o \in JSONObjects}

\* the value json.Unmarshal leaves in a field: the key's value, else what was there
Field(obj, key, was) == IF obj[key] = <<>> THEN was ELSE obj[key][1]

\* json.Unmarshal(data, &cfg) on a JSON object, cfg the zero Config
Unmarshal(obj) ==
    [DefaultSpeedOption |-> Field(obj, "defaultSpeedOption", ZeroConfig.DefaultSpeedOption),
     CustomSpeedMs      |-> Field(obj, "customSpeedMs", ZeroConfig.CustomSpeedMs),
     KeyboardLayout     |-> Field(obj, "keyboardLayout", ZeroConfig.KeyboardLayout),
     CompatibilityMode  |-> Field(obj, "compatibilityMode", ZeroConfig.CompatibilityMode),
     AbortOnFocusChange |-> Field(obj, "abortOnFocusChange", ZeroConfig.AbortOnFocusChange),
     Language           |-> Field(obj, "language", ZeroConfig.Language)]

\* json.MarshalIndent(cfg): every field under its key
MarshalIndent(cfg) ==
    [defaultSpeedOption |-> <<cfg.DefaultSpeedOption>>,
     customSpeedMs      |-> <<cfg.CustomSpeedMs>>,
     keyboardLayout     |-> <<cfg.KeyboardLayout>>,
     compatibilityMode  |-> <<cfg.CompatibilityMode>>,
     abortOnFocusChange |-> <<cfg.AbortOnFocusChange>>,
     language           |-> <<cfg.Language>>]

\* a Load that takes the file's values as they are
ValidateNothing(cfg) == cfg

\* Load's validation: defaults for empty values, CustomSpeedMs clamped
Validate(cfg) ==
    [cfg EXCEPT
        !.DefaultSpeedOption = IF @ = "" THEN "default" ELSE @,
        !.CustomSpeedMs = IF @ < 0 THEN 0
                          ELSE IF @ > MaxCustomSpeedMs THEN MaxCustomSpeedMs ELSE @,
        !.KeyboardLayout = IF @ = "" THEN "Auto (Use System)" ELSE @,
        !.CompatibilityMode = IF @ = "" THEN "auto" ELSE @]

\* Load: the configuration in memory afterwards and the error returned
Load(current, file) ==
    IF file.kind = "missing" THEN [current |-> DefaultConfig, err |-> NoErr]
    ELSE IF file.kind = "unreadable" THEN [current |-> current, err |-> "read"]
    ELSE IF file.kind = "invalid" THEN [current |-> current, err |-> "json"]
    ELSE [current |-> Validate(Unmarshal(file.obj)), err |-> NoErr]

\* Get: a copy of the configuration in memory
Get == config.current

\* the functions passed to Update: each sets one field
Modifications == {"CustomSpeedMs", "KeyboardLayout", "AbortOnFocusChange", "Language"}

\* fn(&current) for the function named
Modify(fn, cfg) ==
    CASE fn = "CustomSpeedMs"      -> [cfg EXCEPT !.CustomSpeedMs = 50]
      [] fn = "KeyboardLayout"     -> [cfg EXCEPT !.KeyboardLayout = "German (DE)"]
      [] fn = "AbortOnFocusChange" -> [cfg EXCEPT !.AbortOnFocusChange = FALSE]
      [] fn = "Language"           -> [cfg EXCEPT !.Language = "de"]

\* most goroutines that call Update, each once
MaxUpdaters == 2

\* a goroutine that has not called Update
NoUpdate == [pc |-> "idle", fn |-> "", cfg |-> DefaultConfig, err |-> NoErr]

\* package config after init(): defaults in memory, no call made
NoConfig ==
    [current |-> DefaultConfig, file |-> NoFile, loaded |-> FALSE, was |-> DefaultConfig,
     err |-> NoErr, upd |-> [u \in 1..MaxUpdaters |-> NoUpdate]]

ConfigUnchanged ==
    /\ UNCHANGED <<platform, abortOnFocusChange>>
    /\ UNCHANGED watchVars
    /\ UNCHANGED sessionVars
    /\ UNCHANGED <<delayCall, keyCall, laMu, tracker, reader, command, hklCall,
                   asciiCall, build, watch, listing, langCall>>

\* a call of Load, whole: it holds configMu from its first line to its return
LoadReturns ==
    /\ ~config.loaded
    /\ LET l == Load(config.current, config.file)
       IN  config' = [config EXCEPT !.current = l.current, !.err = l.err,
                                    !.was = config.current, !.loaded = TRUE]
    /\ ConfigUnchanged

(* Update, its first locked section: fn is applied to current and the result
   is copied. *)
UpdateModifies(u, fn) ==
    /\ config.upd[u].pc = "idle"
    /\ LET cfg == Modify(fn, config.current)
       IN  config' = [config EXCEPT
                         !.current = cfg,
                         !.upd[u] = [pc |-> "modified", fn |-> fn, cfg |-> cfg,
                                     err |-> NoErr]]
    /\ ConfigUnchanged

\* SaveConfig(cfg), its locked section: the copy is stored in current
SaveConfigStores(u) ==
    /\ config.upd[u].pc = "modified"
    /\ config' = [config EXCEPT !.current = config.upd[u].cfg,
                                !.upd[u].pc = "stored"]
    /\ ConfigUnchanged

(* SaveConfig(cfg), the rest: MkdirAll, MarshalIndent and WriteFile, which
   succeed (written) or return an error; Update returns it. *)
SaveConfigWrites(u, written) ==
    /\ config.upd[u].pc = "stored"
    /\ config' = [config EXCEPT
                     !.file = IF written
                              THEN [kind |-> "json",
                                    obj |-> MarshalIndent(config.upd[u].cfg)]
                              ELSE @,
                     !.upd[u].pc = "returned",
                     !.upd[u].err = IF written THEN NoErr ELSE "write"]
    /\ ConfigUnchanged

\* ---------------------------------------------------------- typing speed

\* the options of speedSelect
SpeedOptions ==
    {"Default (Auto)", "Medium (50 ms)", "Slow (100 ms)", "Super Slow (250 ms)", "Custom"}

\* the upper clamp of a custom delay, in ms
CustomMax == 10000

\* variant: a text of exactly 200 code points is no longer a small paste
AutoDelayBelow200(text) ==
    LET runeCount == Len(text)
        lines     == 1 + Cardinality({i \in DOMAIN text : text[i] = LF})
    IN  IF runeCount < 200 /\ lines <= 5 THEN 0
        ELSE LET msByLines == lines
                 msByChars == runeCount \div 200
                 ms        == IF msByChars > msByLines THEN msByChars ELSE msByLines
                 atLeast   == IF ms < 10 THEN 10 ELSE ms
             IN  IF atLeast > 50 THEN 50 ELSE atLeast

(* The Default (Auto) branch of getPerCharDelay, in ms: the loop counts the
   code points and, from 1, the newlines of the text. *)
AutoDelay(text) ==
    LET runeCount == Len(text)
        lines     == 1 + Cardinality({i \in DOMAIN text : text[i] = LF})
    IN  IF runeCount <= 200 /\ lines <= 5 THEN 0
        ELSE LET msByLines == lines
                 msByChars == runeCount \div 200
                 ms        == IF msByChars > msByLines THEN msByChars ELSE msByLines
                 atLeast   == IF ms < 10 THEN 10 ELSE ms
             IN  IF atLeast > 50 THEN 50 ELSE atLeast

(* The loop of the Custom branch over the runes of v: acc is the int64
   accumulator, peak the largest value acc*10 + digit has held. *)
RECURSIVE ParseMs(_, _, _)
ParseMs(v, acc, peak) ==
    IF v = <<>> THEN [ms |-> acc, peak |-> peak]
    ELSE IF Head(v) < 48 \/ Head(v) > 57 THEN [ms |-> 0, peak |-> peak]
    ELSE LET next == acc * 10 + (Head(v) - 48)
             high == IF next > peak THEN next ELSE peak
         IN  IF next > CustomMax THEN [ms |-> CustomMax, peak |-> high]
             ELSE ParseMs(Tail(v), next, high)

\* the Custom branch of getPerCharDelay
CustomDelay(entry) ==
    LET v == TrimSpace(entry)
    IN  IF v = <<>> THEN [ms |-> 0, peak |-> 0] ELSE ParseMs(v, 0, 0)

\* getPerCharDelay, in ms, with the accumulator's peak
getPerCharDelay(speed, entry, text) ==
    CASE speed = "Default (Auto)"      -> [ms |-> AutoDelay(text), peak |-> 0]
      [] speed = "Medium (50 ms)"      -> [ms |-> 50, peak |-> 0]
      [] speed = "Slow (100 ms)"       -> [ms |-> 100, peak |-> 0]
      [] speed = "Super Slow (250 ms)" -> [ms |-> 250, peak |-> 0]
      [] speed = "Custom"              -> CustomDelay(entry)
      [] OTHER                         -> [ms |-> 0, peak |-> 0]

\* most newline characters of a text whose delay is computed
MaxNewlines == 60

\* longest custom entry
MaxCustomLen == 6

\* how many other code points the texts hold
RuneCounts == {0, 1, 60, 150, 199, 200, 201, 1000, 2400, 10200}

\* a text of runes letters followed by newlines newline characters
TextOf(runes, newlines) ==
    [i \in 1..(runes + newlines) |-> IF i <= runes THEN 97 ELSE LF]

\* what may stand in customMsEntry: blanks, digits, another character
CustomAlphabet == {32, 48, 49, 57, 120}

CustomEntries == SeqsUpTo(CustomAlphabet, MaxCustomLen)

NoCall ==
    [speed |-> "", entry |-> <<>>, runes |-> 0, newlines |-> 0,
     done |-> TRUE, ms |-> 0, peak |-> 0]

Call(speed, entry, runes, newlines) ==
    [speed |-> speed, entry |-> entry, runes |-> runes, newlines |-> newlines,
     done |-> FALSE, ms |-> 0, peak |-> 0]

\* the calls of getPerCharDelay considered
DelayCalls ==
    {Call("Default (Auto)", <<>>, m, n) : m \in RuneCounts, n \in 0..MaxNewlines}
    \cup {Call(sp, <<49>>, 1, 0) : sp \in SpeedOptions}
    \cup {Call("Custom", e, 1, 0) : e \in CustomEntries}

\* getPerCharDelay returns
DelayReturns ==
    /\ ~delayCall.done
    /\ LET d == getPerCharDelay(delayCall.speed, delayCall.entry,
                                TextOf(delayCall.runes, delayCall.newlines))
       IN  delayCall' = [delayCall EXCEPT !.done = TRUE, !.ms = d.ms, !.peak = d.peak]
    /\ UNCHANGED <<platform, abortOnFocusChange, keyCall, command, hklCall, asciiCall, build, watch, config, listing, langCall>>
    /\ UNCHANGED lockVars
    /\ UNCHANGED watchVars
    /\ UNCHANGED sessionVars

\* ----------------------------------------------------- foreground watcher

(* Whether enumWindows keeps the window.  Windows: visible and not ignored by
   shouldIgnoreWindow.  macOS: on screen, with a title that is not empty, of
   an application that is neither goclip nor ignored (no title is ignored). *)
EnumKeeps(h) ==
    IF platform = "windows"
    THEN isWindowVisible(h)
         /\ ~shouldIgnoreWindow(h, TrimSpace(getWindowText(h)), selfExeLower)
    ELSE /\ OSWindowVisible(h)
         /\ OSWindowText(h) # <<>>
         /\ ToLower(OSWindowText(h)) # selfAppNameLower
         /\ ToLower(OSWindowText(h)) \notin ignoredAppNamesLower

\* the orders in which the OS may enumerate the windows of the desktop
ZOrders == {Ascending(desktop), Reverse(Ascending(desktop))}

\* enumWindows, the OS enumerating the windows in the given order
enumWindows(order) ==
    LET kept == SelectSeq(order, EnumKeeps)
    IN  sortSlice([k \in 1..Len(kept) |-> windowInfo(kept[k])])

\* enumWindows, as a set of windows
enumWindowsSet == {h \in desktop : EnumKeeps(h)}

\* the label refreshWindows builds for a window
LabelOf(h) == <<truncateRunes(TrimSpace(getWindowText(h)), TitleLimit), h>>

\* winMap as refreshWindows builds it
RefreshedWinMap == [l \in {LabelOf(h) : h \in enumWindowsSet} |-> l[2]]

\* a label of the window list whose window has gone since the last refresh
StaleLabel == <<<<71, 111, 110, 101>>, 9>>

\* windowSelect.Selected when nothing is selected
NoSelection == <<>>

\* the OS moves the foreground to w and, with the hook installed, queues the event
OSSetForeground(w) ==
    /\ foreground' = w
    /\ fgEvents' = IF platform = "windows" /\ foregroundEventHook # 0
                      /\ Len(fgEvents) < MaxPending
                   THEN Append(fgEvents, w) ELSE fgEvents

\* the user (or another program) brings window w to the foreground
ForegroundChange(w) ==
    /\ w \in desktop
    /\ w # foreground
    /\ platform = "windows" /\ foregroundEventHook # 0 => Len(fgEvents) < MaxPending
    /\ OSSetForeground(w)
    /\ UNCHANGED <<platform, desktop, winMap, wins, foregroundEventHook,
                   foregroundCallbackRef, lastActiveHandle, lastActiveTitle,
                   abortOnFocusChange>>
    /\ UNCHANGED sessionVars
    /\ UNCHANGED calcVars

(* The WinEvent callback of startForegroundWatcher, run by the UI thread's
   message loop, with the onChange closure of main. *)
HookCallback ==
    /\ platform = "windows"
    /\ ui.pc = "idle"
    /\ fgEvents # <<>>
    /\ LET hwnd  == Head(fgEvents)
           title == TrimSpace(getWindowText(hwnd))
       IN  IF CallbackAccepts(hwnd)
           THEN /\ lastActiveHandle' = hwnd
                /\ lastActiveTitle' = truncateRunes(title, TitleLimit)
           ELSE UNCHANGED <<lastActiveHandle, lastActiveTitle>>
    /\ fgEvents' = Tail(fgEvents)
    /\ UNCHANGED <<platform, desktop, winMap, wins, foregroundEventHook,
                   foregroundCallbackRef, foreground, abortOnFocusChange>>
    /\ UNCHANGED sessionVars
    /\ UNCHANGED calcVars

\* getFrontmostApp: the PID and name of the frontmost application
getFrontmostApp == [pid |-> foreground, name |-> getWindowText(foreground)]

\* one tick of the macOS polling goroutine
PollTick ==
    /\ platform = "darwin"
    /\ LET f == getFrontmostApp
       IN  IF f.pid > 0 /\ ToLower(f.name) # ToLower(OSWindowText(WinSelf))
              /\ f.pid # lastActiveHandle
           THEN /\ lastActiveHandle' = f.pid
                /\ lastActiveTitle' = truncateRunes(f.name, TitleLimit)
           ELSE UNCHANGED <<lastActiveHandle, lastActiveTitle>>
    /\ UNCHANGED <<platform, desktop, winMap, wins, foregroundEventHook,
                   foregroundCallbackRef, fgEvents, foreground, abortOnFocusChange>>
    /\ UNCHANGED sessionVars
    /\ UNCHANGED calcVars

\* ------------------------------------- the last-active pair under laMu

\* the pair main starts with: no window, "(none)"
InitialTitle == <<40, 110, 111, 110, 101, 41>>

Unlocked == [writer |-> FALSE, readers |-> 0]

\* variant of RLock that does not wait for the writer
CanRLockAnyway(mu) == TRUE

\* sync.RWMutex: RLock waits while a writer holds the mutex
CanRLock(mu) == ~mu.writer

\* sync.RWMutex: Lock waits while anyone holds the mutex
CanLock(mu) == ~mu.writer /\ mu.readers = 0

TrackerIdle ==
    [pc |-> "idle", hwnd |-> NoWindow, title |-> <<>>,
     wrote |-> {<<NoWindow, InitialTitle>>}]

ReaderIdle == [pc |-> "idle", curH |-> NoWindow, curTitle |-> InitialTitle]

(* The tracker sees a window: on macOS a tick of the polling goroutine reads
   the frontmost application, on Windows the message loop of the UI thread
   delivers a foreground event to the hook callback.  What passes the filter
   goes on to the update under laMu. *)
TrackerSees ==
    /\ tracker.pc = "idle"
    /\ IF platform = "darwin"
       THEN LET f == getFrontmostApp
            IN  /\ tracker' = IF f.pid > 0 /\ ToLower(f.name) # ToLower(OSWindowText(WinSelf))
                               THEN [tracker EXCEPT !.pc = "lock", !.hwnd = f.pid,
                                        !.title = truncateRunes(f.name, TitleLimit)]
                               ELSE tracker
                /\ UNCHANGED fgEvents
       ELSE /\ reader.pc = "idle"
            /\ fgEvents # <<>>
            /\ LET hwnd  == Head(fgEvents)
                   title == TrimSpace(getWindowText(hwnd))
               IN  tracker' = IF CallbackAccepts(hwnd)
                              THEN [tracker EXCEPT !.pc = "lock", !.hwnd = hwnd,
                                       !.title = truncateRunes(title, TitleLimit)]
                              ELSE tracker
            /\ fgEvents' = Tail(fgEvents)
    /\ UNCHANGED <<platform, desktop, winMap, wins, foregroundEventHook, foregroundCallbackRef,
                   foreground, lastActiveHandle, lastActiveTitle, abortOnFocusChange>>
    /\ UNCHANGED <<command, delayCall, keyCall, laMu, reader, hklCall, asciiCall, build, watch, config, listing, langCall>>
    /\ UNCHANGED sessionVars

\* laMu.Lock()
TrackerLock ==
    /\ tracker.pc = "lock"
    /\ CanLock(laMu)
    /\ laMu' = [laMu EXCEPT !.writer = TRUE]
    /\ tracker' = [tracker EXCEPT !.pc = "locked"]
    /\ UNCHANGED <<platform, abortOnFocusChange, command, delayCall, keyCall, reader, hklCall, asciiCall, build, watch, config, listing, langCall>>
    /\ UNCHANGED watchVars
    /\ UNCHANGED sessionVars

\* a tracker that writes the handle whether or not the PID is a new one
TrackerWriteHandleAlways ==
    /\ tracker.pc = "locked"
    /\ lastActiveHandle' = tracker.hwnd
    /\ tracker' = [tracker EXCEPT !.pc = "handle"]
    /\ UNCHANGED <<platform, desktop, winMap, wins, foregroundEventHook, foregroundCallbackRef,
                   fgEvents, foreground, lastActiveTitle, abortOnFocusChange>>
    /\ UNCHANGED <<command, delayCall, keyCall, laMu, reader, hklCall, asciiCall, build, watch, config, listing, langCall>>
    /\ UNCHANGED sessionVars

\* the handle is written (on macOS only when the PID is a new one)
TrackerWriteHandle ==
    /\ tracker.pc = "locked"
    /\ IF platform = "darwin" /\ tracker.hwnd = lastActiveHandle
       THEN /\ tracker' = [tracker EXCEPT !.pc = "unlock"]
            /\ UNCHANGED lastActiveHandle
       ELSE /\ lastActiveHandle' = tracker.hwnd
            /\ tracker' = [tracker EXCEPT !.pc = "handle"]
    /\ UNCHANGED <<platform, desktop, winMap, wins, foregroundEventHook, foregroundCallbackRef,
                   fgEvents, foreground, lastActiveTitle, abortOnFocusChange>>
    /\ UNCHANGED <<command, delayCall, keyCall, laMu, reader, hklCall, asciiCall, build, watch, config, listing, langCall>>
    /\ UNCHANGED sessionVars

\* the title is written: the update is complete
TrackerWriteTitle ==
    /\ tracker.pc = "handle"
    /\ lastActiveTitle' = tracker.title
    /\ tracker' = [tracker EXCEPT !.pc = "unlock",
                                  !.wrote = @ \cup {<<tracker.hwnd, tracker.title>>}]
    /\ UNCHANGED <<platform, desktop, winMap, wins, foregroundEventHook, foregroundCallbackRef,
                   fgEvents, foreground, lastActiveHandle, abortOnFocusChange>>
    /\ UNCHANGED <<command, delayCall, keyCall, laMu, reader, hklCall, asciiCall, build, watch, config, listing, langCall>>
    /\ UNCHANGED sessionVars

\* laMu.Unlock()
TrackerUnlock ==
    /\ tracker.pc = "unlock"
    /\ laMu' = [laMu EXCEPT !.writer = FALSE]
    /\ tracker' = [tracker EXCEPT !.pc = "idle"]
    /\ UNCHANGED <<platform, abortOnFocusChange, command, delayCall, keyCall, reader, hklCall, asciiCall, build, watch, config, listing, langCall>>
    /\ UNCHANGED watchVars
    /\ UNCHANGED sessionVars

(* A Type command begins: the handler of Type or Type Clipboard (or the
   hotkey callback) is entered on the UI thread; on Windows the hook callback
   runs on that thread too and is not in progress. *)
ReaderBegins ==
    /\ reader.pc = "idle"
    /\ platform = "windows" => tracker.pc = "idle"
    /\ reader' = [reader EXCEPT !.pc = "rlock"]
    /\ UNCHANGED <<platform, abortOnFocusChange, command, delayCall, keyCall, laMu, tracker, hklCall, asciiCall, build, watch, config, listing, langCall>>
    /\ UNCHANGED watchVars
    /\ UNCHANGED sessionVars

\* laMu.RLock()
ReaderRLock ==
    /\ reader.pc = "rlock"
    /\ CanRLock(laMu)
    /\ laMu' = [laMu EXCEPT !.readers = @ + 1]
    /\ reader' = [reader EXCEPT !.pc = "locked"]
    /\ UNCHANGED <<platform, abortOnFocusChange, command, delayCall, keyCall, tracker, hklCall, asciiCall, build, watch, config, listing, langCall>>
    /\ UNCHANGED watchVars
    /\ UNCHANGED sessionVars

\* curH := lastActiveHandle (curPID := lastActivePID)
ReaderReadsHandle ==
    /\ reader.pc = "locked"
    /\ reader' = [reader EXCEPT !.pc = "handle", !.curH = lastActiveHandle]
    /\ UNCHANGED <<platform, abortOnFocusChange, command, delayCall, keyCall, laMu, tracker, hklCall, asciiCall, build, watch, config, listing, langCall>>
    /\ UNCHANGED watchVars
    /\ UNCHANGED sessionVars

\* curTitle := lastActiveTitle
ReaderReadsTitle ==
    /\ reader.pc = "handle"
    /\ reader' = [reader EXCEPT !.pc = "runlock", !.curTitle = lastActiveTitle]
    /\ UNCHANGED <<platform, abortOnFocusChange, command, delayCall, keyCall, laMu, tracker, hklCall, asciiCall, build, watch, config, listing, langCall>>
    /\ UNCHANGED watchVars
    /\ UNCHANGED sessionVars

\* laMu.RUnlock(); the handler goes on with curH and curTitle
ReaderRUnlock ==
    /\ reader.pc = "runlock"
    /\ laMu' = [laMu EXCEPT !.readers = @ - 1]
    /\ reader' = [reader EXCEPT !.pc = "idle"]
    /\ UNCHANGED <<platform, abortOnFocusChange, command, delayCall, keyCall, tracker, hklCall, asciiCall, build, watch, config, listing, langCall>>
    /\ UNCHANGED watchVars
    /\ UNCHANGED sessionVars


\* ------------------------------------------------------------- sendText

\* strings.ReplaceAll(text, "\r\n", "\n")
RECURSIVE NormalizeNewlines(_)
NormalizeNewlines(text) ==
    IF text = <<>> THEN <<>>
    ELSE IF Len(text) >= 2 /\ text[1] = CR /\ text[2] = LF
         THEN <<LF>> \o NormalizeNewlines(SubSeq(text, 3, Len(text)))
         ELSE <<Head(text)>> \o NormalizeNewlines(Tail(text))

\* the cases of loadHKLByName's switch: layout name -> KLID
klid ==
    [n \in {} |-> ""]
    @@ ("English (US)" :> "00000409") @@ ("US International" :> "00020409")
    @@ ("English (UK)" :> "00000809") @@ ("German (DE)" :> "00000407")
    @@ ("French (FR)" :> "0000040C") @@ ("Spanish (ES)" :> "0000040A")
    @@ ("Italian (IT)" :> "00000410") @@ ("Dutch (NL)" :> "00000413")
    @@ ("Portuguese (BR - ABNT2)" :> "00010416")
    @@ ("Portuguese (PT)" :> "00000816") @@ ("Danish (DA)" :> "00000406")
    @@ ("Swedish (SV)" :> "0000041D") @@ ("Finnish (FI)" :> "0000040B")
    @@ ("Norwegian (NO)" :> "00000414")
    @@ ("Swiss German (DE-CH)" :> "00000807")
    @@ ("Swiss French (FR-CH)" :> "0000100C")
    @@ ("Polish (Programmers)" :> "00000415") @@ ("Czech (CS)" :> "00000405")
    @@ ("Slovak (SK)" :> "0000041B") @@ ("Hungarian (HU)" :> "0000040E")
    @@ ("Turkish (Q)" :> "0000041F") @@ ("Russian (RU)" :> "00000419")
    @@ ("Ukrainian (UK)" :> "00000422") @@ ("Hebrew (HE)" :> "0000040D")
    @@ ("Arabic (AR)" :> "00000401") @@ ("Japanese (JP)" :> "00000411")
    @@ ("Korean (KO)" :> "00000412")

\* procGetKeyboardLayout.Call(0): the handle of the thread's current layout
GetKeyboardLayout == [proc |-> "GetKeyboardLayout", arg |-> "0", hkl |-> SystemHKL]

\* procLoadKeyboardLayoutW.Call(id, 0): the handle of the layout, named by its KLID
LoadKeyboardLayoutW(id) == [proc |-> "LoadKeyboardLayoutW", arg |-> id, hkl |-> id]

\* loadHKLByName that tries its table before anything else
loadHKLCallTableFirst(name) ==
    IF name \in DOMAIN klid THEN LoadKeyboardLayoutW(klid[name])
    ELSE LoadKeyboardLayoutW(name)

\* the one OS call loadHKLByName(name) makes, with the handle it returns
loadHKLCall(name) ==
    IF name = "Auto (Use System)" \/ name = "" THEN GetKeyboardLayout
    ELSE IF name \in DOMAIN klid THEN LoadKeyboardLayoutW(klid[name])
    ELSE GetKeyboardLayout

\* the handle of the named layout
loadHKLByName(name) == loadHKLCall(name).hkl

\* no call of loadHKLByName
NoHklCall == [name |-> "", done |-> TRUE, call |-> GetKeyboardLayout]

\* the names loadHKLByName is called with: the options of layoutSelect, the
\* empty selection, and names its switch does not know
LayoutNames ==
    {"Auto (Use System)", ""} \cup DOMAIN klid
    \cup {klid[n] : n \in DOMAIN klid}
    \cup {"auto", "Auto", "english (us)", "English (US) ", "German", "Klingon"}

HklCalls == {[name |-> n, done |-> FALSE, call |-> GetKeyboardLayout] : n \in LayoutNames}

\* loadHKLByName returns
LoadHKLReturns ==
    /\ ~hklCall.done
    /\ hklCall' = [hklCall EXCEPT !.done = TRUE, !.call = loadHKLCall(hklCall.name)]
    /\ UNCHANGED <<platform, abortOnFocusChange, delayCall, keyCall, command, asciiCall, build, watch, config, listing, langCall>>
    /\ UNCHANGED lockVars
    /\ UNCHANGED watchVars
    /\ UNCHANGED sessionVars

\* sendASCIICharUS returns
SendASCIIReturns ==
    /\ ~asciiCall.done
    /\ LET a == sendASCIICharUS(EmptyRun, asciiCall.o, asciiCall.r)
       IN  asciiCall' = [asciiCall EXCEPT !.done = TRUE, !.handled = a.handled,
                                          !.run = a.run]
    /\ UNCHANGED <<platform, abortOnFocusChange, delayCall, keyCall, command, hklCall, build, watch, config, listing, langCall>>
    /\ UNCHANGED lockVars
    /\ UNCHANGED watchVars
    /\ UNCHANGED sessionVars

\* what buildLayoutMapping's steps leave alone
BuildUnchanged ==
    /\ UNCHANGED <<platform, abortOnFocusChange, delayCall, keyCall, command, hklCall,
                   asciiCall, watch, config, listing, langCall>>
    /\ UNCHANGED lockVars
    /\ UNCHANGED watchVars
    /\ UNCHANGED sessionVars

\* layoutMapMu.Lock(); defer layoutMapMu.Unlock(); layoutMap = map[rune]keyMods{}
BuildLock ==
    /\ build.pc = "start"
    /\ build' = [build EXCEPT !.pc = "loop", !.holds = TRUE]
    /\ BuildUnchanged

\* the loop enters C.mapRuneToKey for the next candidate
BuildCallsOS ==
    /\ build.pc = "loop"
    /\ build.next <= Len(candidates)
    /\ build' = [build EXCEPT !.pc = "translate"]
    /\ BuildUnchanged

\* C.mapRuneToKey returns, and the loop stores the key it found
BuildStores ==
    /\ build.pc = "translate"
    /\ LET r == candidates[build.next]
           m == OSmapRuneToKey(r)
       IN  build' = [build EXCEPT
                        !.pc = "loop",
                        !.next = @ + 1,
                        !.cache = IF m.found THEN (r :> keyMods(m)) @@ @ ELSE @]
    /\ BuildUnchanged

\* the end of the loop: buildLayoutMapping returns, the deferred Unlock runs
BuildReturns ==
    /\ build.pc = "loop"
    /\ build.next > Len(candidates)
    /\ build' = [build EXCEPT !.pc = "done", !.holds = FALSE]
    /\ BuildUnchanged

\* the body of the Windows sendText loop for one code point, after the stop check
SendOneWindows(o, r, hkl) ==
    IF r = LF
    THEN LET e == sendEnter(EmptyRun, o, hkl)
         IN  IF Failed(e) THEN e ELSE Sleep(e)
    ELSE sendCharPhysical(EmptyRun, o, r, hkl)

\* the body of the macOS sendText loop for one code point, after the stop check
SendOneDarwin(o, r) ==
    IF r = LF
    THEN LET e == sendKeyPress(EmptyRun, o, kVK_Return)
         IN  IF Failed(e) THEN e ELSE Sleep(e)
    ELSE IF r \in DOMAIN layoutMap
    THEN LET km == layoutMap[r]
             e  == sendKeyPressWithMods(EmptyRun, o, km.code, km.shift, km.option)
         IN  IF Failed(e) THEN e ELSE Sleep(e)
    ELSE LET a == sendASCIICharUS(EmptyRun, o, r)
         IN  IF Failed(a.run) THEN a.run
             ELSE IF a.handled THEN Sleep(a.run)
             ELSE LET c == sendChar(EmptyRun, o, r)
                  IN  IF Failed(c) THEN c ELSE Sleep(c)

SendOne(plat, o, r) ==
    IF plat = "windows" THEN SendOneWindows(o, r, loadHKLByName("Auto (Use System)"))
    ELSE SendOneDarwin(o, r)

\* the calls of one character, tagged with the character's index in the text
Tagged(calls, i) ==
    [k \in 1..Len(calls) |->
        [kind |-> calls[k].kind, code |-> calls[k].code, ext |-> calls[k].ext,
         down |-> calls[k].down, req |-> calls[k].req, inj |-> calls[k].inj,
         idx |-> i]]

NoKeyCall ==
    [layout |-> "", r |-> NUL, o |-> [k \in 1..MaxCalls |-> "ok"], done |-> TRUE,
     run |-> EmptyRun]

\* the passes of the Windows sendText loop considered: layout, code point, OS
KeyCalls ==
    {[layout |-> l, r |-> r, o |-> o, done |-> FALSE, run |-> EmptyRun] :
        l \in LayoutOptions, r \in Alphabet, o \in Oracles}

\* one pass of the Windows sendText loop ends
SendOneReturns ==
    /\ ~keyCall.done
    /\ keyCall' = [keyCall EXCEPT
                      !.done = TRUE,
                      !.run = SendOneWindows(keyCall.o, keyCall.r,
                                             loadHKLByName(keyCall.layout))]
    /\ UNCHANGED <<platform, abortOnFocusChange, delayCall, command, hklCall, asciiCall, build, watch, config, listing, langCall>>
    /\ UNCHANGED lockVars
    /\ UNCHANGED watchVars
    /\ UNCHANGED sessionVars

\* config.GetAbortOnFocusChange: the setting, TRUE in DefaultConfig
GetAbortOnFocusChange == abortOnFocusChange

\* faulty variant of shouldStop: the stop flag is never seen
shouldStopNever == FALSE

\* shouldStop of main: the stop flag, and nothing else
shouldStop == typingStopRequested

\* ------------------------------------------------------ typing goroutine

NewTask(kind, hwnd, title, txt) ==
    [kind |-> kind, hwnd |-> hwnd, title |-> title, input |-> txt,
     text |-> NormalizeNewlines(txt), i |-> 1, pc |-> "loop", err |-> NoErr,
     canceled |-> FALSE, sleeps |-> 0]

SetTask(t, rec) == tasks' = [tasks EXCEPT ![t] = rec]

\* top of the loop of sendText: the end of the text, then the stop check
TaskCheck(t) ==
    /\ t \in DOMAIN tasks
    /\ tasks[t].pc = "loop"
    /\ LET T == tasks[t]
       IN  IF T.i > Len(T.text)
           THEN SetTask(t, [T EXCEPT !.pc = "returned", !.err = NoErr])
           ELSE IF shouldStop
           THEN SetTask(t, [T EXCEPT !.pc = "returned", !.err = NoErr])
           ELSE SetTask(t, [T EXCEPT !.pc = "send"])
    /\ UNCHANGED <<platform, abortOnFocusChange, typingStopRequested, isCurrentlyTyping,
                   buttons, status, ui, hotkeyQueue, log>>
    /\ UNCHANGED watchVars
    /\ UNCHANGED calcVars

\* one character is sent (and the per-character delay slept)
TaskSend(t) ==
    /\ t \in DOMAIN tasks
    /\ tasks[t].pc = "send"
    /\ \E run \in {SendOne(platform, o, tasks[t].text[tasks[t].i]) : o \in Oracles} :
         LET T == tasks[t]
         IN  /\ log' = log \o Tagged(run.calls, T.i)
             /\ IF Failed(run)
                THEN SetTask(t, [T EXCEPT !.pc = "returned", !.err = run.err,
                                          !.sleeps = @ + run.sleeps])
                ELSE SetTask(t, [T EXCEPT !.pc = "loop", !.i = T.i + 1,
                                          !.sleeps = @ + run.sleeps])
    /\ UNCHANGED <<platform, abortOnFocusChange, typingStopRequested, isCurrentlyTyping,
                   buttons, status, ui, hotkeyQueue>>
    /\ UNCHANGED watchVars
    /\ UNCHANGED calcVars

\* the title the Windows goroutine reports: the window's text now, else curTitle
ReportTitle(T) ==
    IF platform = "windows"
    THEN LET now == TrimSpace(getWindowText(T.hwnd))
         IN  truncateRunes(IF now = <<>> THEN T.title ELSE now, TitleLimit)
    ELSE T.title

\* after sendText returned: canceled := shouldStop(), then fyne.Do(...)
TaskReadCanceled(t) ==
    /\ t \in DOMAIN tasks
    /\ tasks[t].pc = "returned"
    /\ SetTask(t, [tasks[t] EXCEPT !.pc = "posted", !.canceled = shouldStop,
                                   !.title = ReportTitle(tasks[t])])
    /\ UNCHANGED <<platform, abortOnFocusChange, typingStopRequested, isCurrentlyTyping,
                   buttons, status, ui, hotkeyQueue, log>>
    /\ UNCHANGED watchVars
    /\ UNCHANGED calcVars

RemoveAt(s, t) == SubSeq(s, 1, t - 1) \o SubSeq(s, t + 1, Len(s))

\* a completion callback that leaves the status of the running session
CompletionStatusKept(T) ==
    Status(IF T.kind = "clipboard" THEN "Typing clipboard..." ELSE "Typing...")

\* the status the completion callback shows
CompletionStatus(T) ==
    IF T.canceled THEN Status("Typing stopped by user.")
    ELSE IF T.err # NoErr
         THEN StatusErr(IF T.kind = "clipboard" THEN "Error typing clipboard: "
                        ELSE "Error typing: ", T.err)
         ELSE StatusTitle(IF T.kind = "clipboard" THEN "Typed clipboard to: "
                          ELSE "Typed to: ", T.title)

\* a stop flag that, once set, is never cleared
setStopRequestedSticky(v) == typingStopRequested' = (typingStopRequested \/ v)

setStopRequested(v) == typingStopRequested' = v

\* the callback the goroutine posted with fyne.Do, run by the UI thread
Completion(t) ==
    /\ ui.pc = "idle"
    /\ t \in DOMAIN tasks
    /\ tasks[t].pc = "posted"
    /\ status' = CompletionStatus(tasks[t])
    /\ isCurrentlyTyping' = IF platform = "darwin" THEN FALSE ELSE isCurrentlyTyping
    /\ buttons' = "type"
    /\ setStopRequested(FALSE)
    /\ tasks' = RemoveAt(tasks, t)
    /\ log' = IF Len(tasks) = 1 THEN <<>> ELSE log
    /\ UNCHANGED <<platform, abortOnFocusChange, ui, hotkeyQueue>>
    /\ UNCHANGED watchVars
    /\ UNCHANGED calcVars


\* ------------------------------------------------------------ UI thread

\* the Stop button, shown while a text is typed
StopTapped ==
    /\ ui.pc = "idle"
    /\ buttons = "stop"
    /\ setStopRequested(TRUE)
    /\ status' = Status("Stopping typing...")
    /\ UNCHANGED <<platform, abortOnFocusChange, isCurrentlyTyping, buttons, ui,
                   hotkeyQueue, tasks, log>>
    /\ UNCHANGED watchVars
    /\ UNCHANGED calcVars

\* the handler returns early with a status and starts nothing
HandlerReturns(text) ==
    /\ status' = Status(text)
    /\ ui' = UIIdle
    /\ UNCHANGED <<typingStopRequested, isCurrentlyTyping, buttons, tasks, log>>

(* The Type / Type Clipboard handler up to its settle delay: the target is
   resolved from the selection (or the last active window), then activated.
   activated is the OS's answer to the activation request. *)
TypeHandler(kind, selected, activated) ==
    LET curH     == lastActiveHandle
        curTitle == lastActiveTitle
        found    == selected \in DOMAIN winMap
        hwnd     == IF selected = NoSelection THEN curH
                    ELSE IF found THEN winMap[selected] ELSE NoWindow
        title    == IF selected = NoSelection \/ platform = "windows" THEN curTitle
                    ELSE TrimSpace(getWindowText(hwnd))
    IN  IF selected # NoSelection /\ (~found \/ hwnd = NoWindow)
        THEN /\ HandlerReturns("Selected window is no longer available.")
             /\ UNCHANGED <<foreground, fgEvents>>
        ELSE IF hwnd = NoWindow
        THEN /\ HandlerReturns("No window focused yet. Click a window then come back.")
             /\ UNCHANGED <<foreground, fgEvents>>
        ELSE IF platform = "darwin" /\ ~activated
        THEN /\ HandlerReturns("Failed to activate target window.")
             /\ UNCHANGED <<foreground, fgEvents>>
        ELSE /\ IF activated /\ foreground # hwnd THEN OSSetForeground(hwnd)
                ELSE UNCHANGED <<foreground, fgEvents>>
             /\ ui' = [pc |-> "settle", kind |-> kind, hwnd |-> hwnd, title |-> title]
             /\ UNCHANGED <<typingStopRequested, isCurrentlyTyping, buttons, status,
                            tasks, log>>

Selections == {NoSelection, StaleLabel} \cup DOMAIN winMap

\* a tap on Type or Type Clipboard, which are shown while nothing is typed
TypeTapped(kind) ==
    /\ ui.pc = "idle"
    /\ buttons = "type"
    /\ \E selected \in Selections, activated \in BOOLEAN :
         TypeHandler(kind, selected, activated)
    /\ UNCHANGED <<platform, desktop, winMap, wins, foregroundEventHook,
                   foregroundCallbackRef, lastActiveHandle, lastActiveTitle,
                   abortOnFocusChange, hotkeyQueue>>
    /\ UNCHANGED calcVars

NoCommand == [n |-> 0, selected |-> NoSelection, activated |-> TRUE]

\* a tap on Type or Type Clipboard, with what it met kept in command
TypeCommand(kind) ==
    /\ ui.pc = "idle"
    /\ buttons = "type"
    /\ \E selected \in Selections, activated \in BOOLEAN :
         /\ TypeHandler(kind, selected, activated)
         /\ command' = [n |-> 1 - command.n, selected |-> selected,
                        activated |-> activated]
    /\ UNCHANGED <<platform, desktop, winMap, wins, foregroundEventHook,
                   foregroundCallbackRef, lastActiveHandle, lastActiveTitle,
                   abortOnFocusChange, hotkeyQueue>>
    /\ UNCHANGED <<delayCall, keyCall, hklCall, asciiCall, build, watch, config, listing, langCall>>
    /\ UNCHANGED lockVars

\* a handler that goes on without the activation and the settle delay
SettledAnyway == TRUE

\* the handler has activated the target and slept the settle delay of 150ms
Settled == ui.pc = "settle"

(* The rest of the handler, after time.Sleep(150ms): the text is read and,
   unless it is empty, the typing goroutine is started. *)
TypeSettled ==
    /\ Settled
    /\ Len(tasks) < MaxTasks
    /\ \E txt \in Texts \cup {<<>>} :
         IF txt = <<>>
         THEN /\ status' = Status(IF ui.kind = "clipboard" THEN "Clipboard is empty."
                                  ELSE "Nothing to type.")
              /\ UNCHANGED <<typingStopRequested, isCurrentlyTyping, buttons, tasks, log>>
         ELSE /\ setStopRequested(FALSE)
              /\ isCurrentlyTyping' = IF platform = "darwin" THEN TRUE
                                      ELSE isCurrentlyTyping
              /\ buttons' = "stop"
              /\ status' = Status(IF ui.kind = "clipboard" THEN "Typing clipboard..."
                                  ELSE "Typing...")
              /\ tasks' = Append(tasks, NewTask(ui.kind, ui.hwnd, ui.title, txt))
              /\ log' = <<>>
    /\ ui' = UIIdle
    /\ UNCHANGED <<platform, abortOnFocusChange, hotkeyQueue>>
    /\ UNCHANGED watchVars
    /\ UNCHANGED calcVars

\* Cmd+G is pressed: hotkeyPressed posts the callback to the UI thread
HotkeyPressed ==
    /\ platform = "darwin"
    /\ hotkeyQueue < MaxHotkeys
    /\ hotkeyQueue' = hotkeyQueue + 1
    /\ UNCHANGED <<platform, abortOnFocusChange, typingStopRequested, isCurrentlyTyping,
                   buttons, status, ui, tasks, log>>
    /\ UNCHANGED watchVars
    /\ UNCHANGED calcVars

\* faulty variant of getTypingState: the typing state is never seen as set
getTypingStateUnset == FALSE

getTypingState == isCurrentlyTyping

\* the hotkey callback of main: Type Clipboard unless a text is being typed
HotkeyCallback ==
    /\ platform = "darwin"
    /\ ui.pc = "idle"
    /\ hotkeyQueue > 0
    /\ hotkeyQueue' = hotkeyQueue - 1
    /\ IF ~getTypingState
       THEN \E selected \in Selections, activated \in BOOLEAN :
                TypeHandler("clipboard", selected, activated)
       ELSE UNCHANGED <<foreground, fgEvents, typingStopRequested, isCurrentlyTyping,
                        buttons, status, ui, tasks, log>>
    /\ UNCHANGED <<platform, desktop, winMap, wins, foregroundEventHook,
                   foregroundCallbackRef, lastActiveHandle, lastActiveTitle,
                   abortOnFocusChange>>
    /\ UNCHANGED calcVars

\* ------------------------------------------------- the window option list

\* the digit characters of fmt's %d and %X
DigitChar(d) == IF d < 10 THEN 48 + d ELSE 55 + d

\* strconv's digits of n in the given base, most significant first
RECURSIVE FormatUint(_, _)
FormatUint(n, base) ==
    IF n < base THEN <<DigitChar(n)>>
    ELSE Append(FormatUint(n \div base, base), DigitChar(n % base))

\* Windows: fmt.Sprintf("%s (0x%X)", short, uintptr(wi.Hwnd))
labelWindows(wi) ==
    truncateRunes(wi.Title, TitleLimit) \o <<32, 40, 48, 120>>
        \o FormatUint(wi.Hwnd, 16) \o <<41>>

\* a label that shows the window number too
labelDarwinNumbered(wi) ==
    truncateRunes(wi.Title, TitleLimit) \o <<32, 45, 32>> \o wi.AppName
        \o <<32, 40, 80, 73, 68, 58, 32>> \o FormatUint(wi.PID, 10) \o <<41>>
        \o FormatUint(wi.WindowNumber, 10)

\* macOS: fmt.Sprintf("%s - %s (PID: %d)", short, wi.AppName, wi.PID)
labelDarwin(wi) ==
    truncateRunes(wi.Title, TitleLimit) \o <<32, 45, 32>> \o wi.AppName
        \o <<32, 40, 80, 73, 68, 58, 32>> \o FormatUint(wi.PID, 10) \o <<41>>

\* a title of TitleLimit + 1 runes that ends with the given one
LongTitle(last) == [k \in 1..TitleLimit |-> 120] \o <<last>>

(* The windows CGWindowListCopyWindowInfo may list on macOS, by window
   number: two documents of Ed with the same title, three windows of Term,
   two of them with titles that differ after the rune limit only, and
   goclip's own window. *)
MacWindows == 11..16

\* the entry getVisibleWindows fills for a window: pid, number, title, owner
CWindowInfo(n) ==
    CASE n = 11 -> [pid |-> 2, windowNumber |-> n, title |-> <<68, 111, 99>>,
                    appName |-> <<69, 100>>]
      [] n = 12 -> [pid |-> 2, windowNumber |-> n, title |-> <<68, 111, 99>>,
                    appName |-> <<69, 100>>]
      [] n = 13 -> [pid |-> 3, windowNumber |-> n, title |-> <<68, 111, 99>>,
                    appName |-> <<84, 101, 114, 109>>]
      [] n = 14 -> [pid |-> 3, windowNumber |-> n, title |-> LongTitle(49),
                    appName |-> <<84, 101, 114, 109>>]
      [] n = 15 -> [pid |-> 3, windowNumber |-> n, title |-> LongTitle(50),
                    appName |-> <<84, 101, 114, 109>>]
      [] n = 16 -> [pid |-> 1, windowNumber |-> n,
                    title |-> <<103, 111, 99, 108, 105, 112>>,
                    appName |-> <<103, 111, 99, 108, 105, 112>>]

\* macOS enumWindows: whether the entry w is kept
KeepsDarwin(w) ==
    /\ ToLower(w.appName) # selfAppNameLower
    /\ ToLower(w.appName) \notin ignoredAppNamesLower

\* macOS enumWindows on the entries getVisibleWindows filled, in their order
enumWindowsDarwin(cWindows) ==
    LET kept == SelectSeq(cWindows, KeepsDarwin)
    IN  sortSlice([k \in 1..Len(kept) |->
                      [PID |-> kept[k].pid, WindowNumber |-> kept[k].windowNumber,
                       Title |-> TrimSpace(kept[k].title),
                       AppName |-> TrimSpace(kept[k].appName)]])

(* The loop of refreshWindows over wins, labels[k] the label made for
   wins[k]: the label is appended to winOptions and winMap[label] assigned. *)
RECURSIVE BuildOptions(_, _)
BuildOptions(ws, labels) ==
    IF ws = <<>> THEN [winOptions |-> <<>>, winMap |-> <<>>]
    ELSE LET before == BuildOptions(SubSeq(ws, 1, Len(ws) - 1), labels)
             wi     == ws[Len(ws)]
             l      == labels[Len(ws)]
         IN  [winOptions |-> Append(before.winOptions, l),
              winMap |-> Append(SelectSeq(before.winMap, LAMBDA e : e[1] # l),
                                <<l, wi>>)]

\* winMap[label], with ok
Lookup(map, label) ==
    LET hits == SelectSeq(map, LAMBDA e : e[1] = label)
    IN  IF hits = <<>> THEN [ok |-> FALSE, wi |-> <<>>]
        ELSE [ok |-> TRUE, wi |-> hits[1][2]]

\* no enumeration made
NoListing == [os |-> <<>>, done |-> TRUE, wins |-> <<>>, winOptions |-> <<>>, winMap |-> <<>>]

\* refreshWindows, whole, on the windows the OS lists
RefreshLists ==
    /\ ~listing.done
    /\ LET ws == IF platform = "windows" THEN enumWindows(listing.os)
                 ELSE enumWindowsDarwin([k \in 1..Len(listing.os) |->
                                            CWindowInfo(listing.os[k])])
           b  == BuildOptions(ws, [k \in 1..Len(ws) |->
                                      IF platform = "windows" THEN labelWindows(ws[k])
                                      ELSE labelDarwin(ws[k])])
       IN  listing' = [listing EXCEPT !.done = TRUE, !.wins = ws,
                                      !.winOptions = b.winOptions,
                                      !.winMap = b.winMap]
    /\ UNCHANGED <<platform, abortOnFocusChange>>
    /\ UNCHANGED watchVars
    /\ UNCHANGED sessionVars
    /\ UNCHANGED <<delayCall, keyCall, laMu, tracker, reader, command, hklCall,
                   asciiCall, build, watch, config, langCall>>

\* the Refresh windows button
refreshWindows ==
    /\ ui.pc = "idle"
    /\ \E order \in ZOrders : wins' = enumWindows(order)
    /\ winMap' = RefreshedWinMap
    /\ status' = Status("Found %d windows.")
    /\ UNCHANGED <<platform, desktop, foregroundEventHook, foregroundCallbackRef,
                   fgEvents, foreground, lastActiveHandle, lastActiveTitle,
                   abortOnFocusChange, typingStopRequested, isCurrentlyTyping, buttons,
                   ui, hotkeyQueue, tasks, log>>
    /\ UNCHANGED calcVars

\* ------------------------------------------------------- specification

\* the state of main before startForegroundWatcher is called
BeforeWatcher(windows) ==
    /\ platform \in {"windows", "darwin"}
    /\ desktop = windows
    /\ fgEvents = <<>>
    /\ foreground = WinSelf
    /\ lastActiveHandle = NoWindow
    /\ lastActiveTitle = InitialTitle
    /\ abortOnFocusChange = TRUE
    /\ typingStopRequested = FALSE
    /\ isCurrentlyTyping = FALSE
    /\ buttons = "type"
    /\ ui = UIIdle
    /\ hotkeyQueue = 0
    /\ tasks = <<>>
    /\ log = <<>>

(* The state when main reaches ShowAndRun: startForegroundWatcher has run
   (the hook is installed, or SetWinEventHook failed), refreshWindows has
   filled the window list and set the status. *)
BeforeRefresh(windows) ==
    /\ BeforeWatcher(windows)
    /\ foregroundCallbackRef = IF platform = "windows" THEN CallbackPtr ELSE 0
    /\ foregroundEventHook \in
           IF platform = "windows" THEN {0, HookHandle} ELSE {0}

\* the state at ShowAndRun on the given desktop, the window list filled
StartOn(windows) ==
    /\ BeforeRefresh(windows)
    /\ wins \in {enumWindows(order) : order \in ZOrders}
    /\ winMap = RefreshedWinMap
    /\ status = Status("Found %d windows.")

\* no locked section is in progress
LockInit ==
    /\ laMu = Unlocked
    /\ tracker = TrackerIdle
    /\ reader = ReaderIdle
    /\ command = NoCommand

MainInit == StartOn(SessionDesktop) /\ LockInit

Init ==
    /\ MainInit
    /\ delayCall = NoCall
    /\ keyCall = NoKeyCall
    /\ langCall = NoLangCall
    /\ listing = NoListing
    /\ config = NoConfig
    /\ watch = NoWatch
    /\ build = NoBuild
    /\ asciiCall = NoAsciiCall
    /\ hklCall = NoHklCall

Next ==
    \/ \E w \in OSWindows : ForegroundChange(w)
    \/ HookCallback
    \/ PollTick
    \/ \E kind \in {"type", "clipboard"} : TypeTapped(kind)
    \/ TypeSettled
    \/ StopTapped
    \/ refreshWindows
    \/ HotkeyPressed
    \/ HotkeyCallback
    \/ \E t \in 1..MaxTasks : TaskCheck(t)
    \/ \E t \in 1..MaxTasks : TaskSend(t)
    \/ \E t \in 1..MaxTasks : TaskReadCanceled(t)
    \/ \E t \in 1..MaxTasks : Completion(t)

Spec == Init /\ [][Next]_vars

(* What the runtime schedules without the user: the UI thread's message loop
   delivers the hook events and the posted callbacks and finishes a handler
   it has begun, the polling goroutine ticks, the typing goroutines run. *)
Fairness ==
    /\ WF_vars(HookCallback)
    /\ WF_vars(PollTick)
    /\ WF_vars(TypeSettled)
    /\ WF_vars(HotkeyCallback)
    /\ \A t \in 1..MaxTasks :
          /\ WF_vars(TaskCheck(t))
          /\ WF_vars(TaskSend(t))
          /\ WF_vars(TaskReadCanceled(t))
          /\ WF_vars(Completion(t))

FairSpec == Spec /\ Fairness

(* Weak fairness of TaskSend(t).  The action is enabled exactly when task t
   is at "send" (every character has a run under every answer of the OS), so
   the state predicate stands where WF_vars has ENABLED. *)
SendFairness(t) ==
    \/ []<>(~(t \in DOMAIN tasks /\ tasks[t].pc = "send"))
    \/ []<><<TaskSend(t)>>_vars

(* What a typing session needs of the scheduler: its goroutine runs, and
   the UI thread runs the completion callback the goroutine posted. *)
SessionFairness ==
    \A t \in 1..MaxTasks :
        /\ WF_vars(TaskCheck(t))
        /\ SendFairness(t)
        /\ WF_vars(TaskReadCanceled(t))
        /\ WF_vars(Completion(t))

SessionFairSpec == Spec /\ SessionFairness

(* getPerCharDelay on its own: the calls are drawn, then it returns.  The
   function is the same in both builds; the Windows program with its hook
   installed is taken. *)
DelayInit ==
    /\ MainInit
    /\ platform = "windows"
    /\ foregroundEventHook = HookHandle
    /\ delayCall \in DelayCalls
    /\ keyCall = NoKeyCall
    /\ langCall = NoLangCall
    /\ listing = NoListing
    /\ config = NoConfig
    /\ watch = NoWatch
    /\ build = NoBuild
    /\ asciiCall = NoAsciiCall
    /\ hklCall = NoHklCall

DelayNext == DelayReturns

DelaySpec == DelayInit /\ [][DelayNext]_vars

(* One pass of the Windows sendText loop on its own, under each layout: the
   pass is drawn, then it ends. *)
KeyInit ==
    /\ MainInit
    /\ platform = "windows"
    /\ foregroundEventHook = HookHandle
    /\ delayCall = NoCall
    /\ keyCall \in KeyCalls
    /\ langCall = NoLangCall
    /\ listing = NoListing
    /\ config = NoConfig
    /\ watch = NoWatch
    /\ build = NoBuild
    /\ asciiCall = NoAsciiCall
    /\ hklCall = NoHklCall

KeyNext == SendOneReturns

KeySpec == KeyInit /\ [][KeyNext]_vars

(* loadHKLByName on its own: the name is drawn, then the function returns. *)
LayoutInit ==
    /\ MainInit
    /\ platform = "windows"
    /\ foregroundEventHook = HookHandle
    /\ delayCall = NoCall
    /\ keyCall = NoKeyCall
    /\ langCall = NoLangCall
    /\ listing = NoListing
    /\ config = NoConfig
    /\ watch = NoWatch
    /\ build = NoBuild
    /\ asciiCall = NoAsciiCall
    /\ hklCall \in HklCalls

LayoutNext == LoadHKLReturns

LayoutSpec == LayoutInit /\ [][LayoutNext]_vars

(* sendASCIICharUS on its own, in the macOS build: the character and the
   OS's answers are drawn, then the function returns. *)
AsciiInit ==
    /\ MainInit
    /\ platform = "darwin"
    /\ delayCall = NoCall
    /\ keyCall = NoKeyCall
    /\ langCall = NoLangCall
    /\ listing = NoListing
    /\ config = NoConfig
    /\ watch = NoWatch
    /\ build = NoBuild
    /\ hklCall = NoHklCall
    /\ asciiCall \in AsciiCalls

AsciiNext == SendASCIIReturns

AsciiSpec == AsciiInit /\ [][AsciiNext]_vars

(* buildLayoutMapping of the macOS build, step by step: main calls it once,
   on the UI thread, before the window is shown. *)
BuildInit ==
    /\ MainInit
    /\ platform = "darwin"
    /\ delayCall = NoCall
    /\ keyCall = NoKeyCall
    /\ langCall = NoLangCall
    /\ listing = NoListing
    /\ config = NoConfig
    /\ watch = NoWatch
    /\ hklCall = NoHklCall
    /\ asciiCall = NoAsciiCall
    /\ build = BuildStart

BuildNext ==
    \/ BuildLock
    \/ BuildCallsOS
    \/ BuildStores
    \/ BuildReturns

BuildSpec == BuildInit /\ [][BuildNext]_vars

(* The tracker and the Type handler's read of the last-active pair, step by
   step, on a desktop that holds every window. *)
TrackInit ==
    /\ StartOn(TrackDesktop)
    /\ LockInit
    /\ delayCall = NoCall
    /\ keyCall = NoKeyCall
    /\ langCall = NoLangCall
    /\ listing = NoListing
    /\ config = NoConfig
    /\ watch = NoWatch
    /\ build = NoBuild
    /\ asciiCall = NoAsciiCall
    /\ hklCall = NoHklCall

TrackNext ==
    \/ \E w \in OSWindows : ForegroundChange(w)
    \/ TrackerSees
    \/ TrackerLock
    \/ TrackerWriteHandle
    \/ TrackerWriteTitle
    \/ TrackerUnlock
    \/ ReaderBegins
    \/ ReaderRLock
    \/ ReaderReadsHandle
    \/ ReaderReadsTitle
    \/ ReaderRUnlock

TrackSpec == TrackInit /\ [][TrackNext]_vars

(* The Type commands with what each of them met, the tracker and the window
   list; the typing goroutine is left at its start. *)
CommandNext ==
    \/ \E w \in OSWindows : ForegroundChange(w)
    \/ HookCallback
    \/ PollTick
    \/ \E kind \in {"type", "clipboard"} : TypeCommand(kind)
    \/ TypeSettled
    \/ refreshWindows

CommandSpec == Init /\ [][CommandNext]_vars

(* refreshWindows on every desktop the windows can make up, from the state
   main is in before it fills the window list. *)
EnumInit ==
    /\ \E windows \in SUBSET OSWindows : BeforeRefresh(windows)
    /\ wins = <<>>
    /\ winMap = [l \in {} |-> NoWindow]
    /\ status = Status("Ready.")
    /\ LockInit
    /\ delayCall = NoCall
    /\ keyCall = NoKeyCall
    /\ langCall = NoLangCall
    /\ listing = NoListing
    /\ config = NoConfig
    /\ watch = NoWatch
    /\ build = NoBuild
    /\ asciiCall = NoAsciiCall
    /\ hklCall = NoHklCall

EnumNext == refreshWindows

EnumSpec == EnumInit /\ [][EnumNext]_vars

(* startForegroundWatcher and stopForegroundWatcher called in any order, from
   the state of the Windows program before its first call. *)
WatchInit ==
    /\ BeforeWatcher(SessionDesktop)
    /\ platform = "windows"
    /\ foregroundEventHook = 0
    /\ foregroundCallbackRef = 0
    /\ wins = <<>>
    /\ winMap = [l \in {} |-> NoWindow]
    /\ status = Status("Ready.")
    /\ LockInit
    /\ delayCall = NoCall
    /\ keyCall = NoKeyCall
    /\ langCall = NoLangCall
    /\ listing = NoListing
    /\ config = NoConfig
    /\ watch = NoWatch
    /\ build = NoBuild
    /\ asciiCall = NoAsciiCall
    /\ hklCall = NoHklCall

WatchNext ==
    \/ WatcherStarts
    \/ WatcherStops

WatchSpec == WatchInit /\ [][WatchNext]_vars

(* Load on its own: the file at configPath and the configuration in memory
   are drawn, then Load runs. *)
LoadInit ==
    /\ MainInit
    /\ platform = "windows"
    /\ foregroundEventHook = HookHandle
    /\ delayCall = NoCall
    /\ keyCall = NoKeyCall
    /\ langCall = NoLangCall
    /\ listing = NoListing
    /\ watch = NoWatch
    /\ build = NoBuild
    /\ asciiCall = NoAsciiCall
    /\ hklCall = NoHklCall
    /\ \E file \in ConfigFiles, current \in {DefaultConfig, Modify("CustomSpeedMs", DefaultConfig)} :
          config = [NoConfig EXCEPT !.file = file, !.current = current, !.was = current]

LoadNext == LoadReturns

LoadSpec == LoadInit /\ [][LoadNext]_vars

(* Goroutines that each call Update once, from package config after init():
   the locked sections of Update and SaveConfig interleave. *)
UpdateInit ==
    /\ Init
    /\ platform = "windows"
    /\ foregroundEventHook = HookHandle

UpdateNext ==
    \/ \E u \in 1..MaxUpdaters, fn \in Modifications : UpdateModifies(u, fn)
    \/ \E u \in 1..MaxUpdaters : SaveConfigStores(u)
    \/ \E u \in 1..MaxUpdaters, written \in BOOLEAN : SaveConfigWrites(u, written)

UpdateSpec == UpdateInit /\ [][UpdateNext]_vars

\* the orders in which the OS may list the windows S
ListOrders(S) == {Ascending(S), Reverse(Ascending(S))}

(* refreshWindows on one enumeration, in either build: the windows the OS
   lists are drawn, then the options and winMap are built from them. *)
ListInit ==
    /\ MainInit
    /\ delayCall = NoCall
    /\ keyCall = NoKeyCall
    /\ langCall = NoLangCall
    /\ config = NoConfig
    /\ watch = NoWatch
    /\ build = NoBuild
    /\ asciiCall = NoAsciiCall
    /\ hklCall = NoHklCall
    /\ \E S \in SUBSET (IF platform = "windows" THEN OSWindows ELSE MacWindows) :
          \E order \in ListOrders(S) :
              listing = [NoListing EXCEPT !.os = order, !.done = FALSE]

ListNext == RefreshLists

ListSpec == ListInit /\ [][ListNext]_vars

(* Labels, ResolveCode and IsSupported on their own: the language code is
   drawn, then the three return. *)
LangInit ==
    /\ MainInit
    /\ platform = "windows"
    /\ foregroundEventHook = HookHandle
    /\ delayCall = NoCall
    /\ keyCall = NoKeyCall
    /\ listing = NoListing
    /\ config = NoConfig
    /\ watch = NoWatch
    /\ build = NoBuild
    /\ asciiCall = NoAsciiCall
    /\ hklCall = NoHklCall
    /\ \E code \in SeqsUpTo(CodeAlphabet, MaxCodeLen) :
          langCall = [NoLangCall EXCEPT !.code = code, !.done = FALSE]

LangNext == LabelsReturns

LangSpec == LangInit /\ [][LangNext]_vars

\* --------------------------------------------------------------- claims

\* the calls the log holds for the character at index i of the text
CallsOf(i) == SelectSeq(log, LAMBDA c : c.idx = i)

\* a press or release of Shift, Ctrl, Alt or AltGr (right Alt, extended)
IsModifierCall(c) ==
    \/ c.kind = "vk" /\ c.code \in {vkShift, vkControl, vkMenu}
    \/ c.kind = "scan" /\ c.code = scRightAlt /\ c.ext

\* sendText has returned
Returned(T) == T.pc \in {"returned", "posted"}

\* the indexes of the characters whose synthesis has returned
Sent(T) ==
    {i \in 1..Len(T.text) : i < T.i \/ (i = T.i /\ Returned(T) /\ T.err # NoErr)}

\* sendText returned nil at the stop check made before the character at T.i
StoppedAt(T) == Returned(T) /\ T.err = NoErr /\ T.i <= Len(T.text)

\* the step of task t is the stop check made before a character
ChecksChar(t) ==
    /\ t \in DOMAIN tasks
    /\ tasks[t].pc = "loop"
    /\ tasks[t].i <= Len(tasks[t].text)
    /\ t \in DOMAIN tasks'
    /\ tasks'[t] # tasks[t]

Presses(cs) == {k \in DOMAIN cs : IsModifierCall(cs[k]) /\ cs[k].down}

Releases(cs) == {k \in DOMAIN cs : IsModifierCall(cs[k]) /\ ~cs[k].down}

(* C1: on Windows, whenever sendCharPhysical has returned for a character,
   with or without an error, it has issued as many modifier releases as
   modifier presses for that character. *)
C1_ReleasesEqualPresses ==
    platform = "windows" =>
        \A t \in DOMAIN tasks : \A i \in Sent(tasks[t]) :
            tasks[t].text[i] # LF =>
                Cardinality(Releases(CallsOf(i))) = Cardinality(Presses(CallsOf(i)))

\* the indexes in the log never decrease
InTextOrder == \A k \in 1..(Len(log) - 1) : log[k].idx <= log[k + 1].idx

(* C2: when the stop flag is set at the check made before the character at
   index i, sendText returns there without sending it; from then on the log
   holds events of the characters before i only, all of them, in text
   order. *)
C2_StopBeforeChar ==
    /\ [][\A t \in 1..MaxTasks :
            ChecksChar(t) /\ typingStopRequested =>
                /\ StoppedAt(tasks'[t])
                /\ tasks'[t].i = tasks[t].i
                /\ log' = log]_vars
    /\ [](\A t \in DOMAIN tasks :
            StoppedAt(tasks[t]) =>
                /\ {log[k].idx : k \in DOMAIN log} = 1..(tasks[t].i - 1)
                /\ InTextOrder)

\* a session stopped before its second character, the first one sent
C2_Witness ==
    \E t \in DOMAIN tasks :
        StoppedAt(tasks[t]) /\ tasks[t].i = 2 /\ log # <<>> /\ typingStopRequested

(* C3: with abortOnFocusChange enabled, a stop check made while the
   foreground window is not the session's target ends sendText before the
   character, whether or not Stop was pressed. *)
C3_AbortOnFocusChange ==
    [][\A t \in 1..MaxTasks :
            ChecksChar(t) /\ GetAbortOnFocusChange /\ foreground # tasks[t].hwnd =>
                StoppedAt(tasks'[t])]_vars

(* C4: at most one typing goroutine exists at any time, whatever Type and
   Type Clipboard commands (buttons, global hotkey) arrive while a session
   is being activated or is running. *)
C4_SingleTask == Len(tasks) <= 1

\* the global hotkey was pressed while a text is being typed
C4_Witness ==
    /\ Len(tasks) = 1
    /\ tasks[1].pc \in {"loop", "send"}
    /\ hotkeyQueue > 0
    /\ isCurrentlyTyping

(* C5: on Windows, when SetWinEventHook failed, a focus change to a window
   the filter accepts is still followed, eventually, by onChange recording
   that window as the last active one. *)
C5_PollingFallback ==
    \A w \in OSWindows :
        (/\ platform = "windows"
         /\ foregroundEventHook = 0
         /\ foreground = w
         /\ CallbackAccepts(w)) ~> (lastActiveHandle = w)

\* the layout types r with the modifier byte 0x06 exactly
AltGrChar(r) ==
    LET ks == vkKeyScanEx(r, SystemHKL)
    IN  r # LF /\ ks.ok /\ ks.shift = 6

\* the layout has a key for r and the key has a scan code
HasScanCode(r) ==
    LET ks == vkKeyScanEx(r, SystemHKL)
    IN  ks.ok /\ mapVirtualKeyEx(ks.vk, SystemHKL) # 0

IsRightAlt(c) == c.kind = "scan" /\ c.code = scRightAlt /\ c.ext

(* the calls cs hold one right-Alt press, first, and one right-Alt release,
   last, and no event of VK_CONTROL or VK_MENU *)
AltGrPair(cs) ==
    /\ {k \in DOMAIN cs : IsRightAlt(cs[k]) /\ cs[k].down} = {1}
    /\ {k \in DOMAIN cs : IsRightAlt(cs[k]) /\ ~cs[k].down} = {Len(cs)}
    /\ \A k \in DOMAIN cs : ~(cs[k].kind = "vk" /\ cs[k].code \in {vkControl, vkMenu})

(* C6 as the spec states it: a character whose modifier byte is exactly 0x06
   is sent with exactly one press and one release of the extended right-Alt
   scan code 0x38 around the key tap and with no VK_CONTROL or VK_MENU
   event. *)
C6_AltGrPair ==
    platform = "windows" =>
        \A t \in DOMAIN tasks : \A i \in Sent(tasks[t]) :
            AltGrChar(tasks[t].text[i]) => AltGrPair(CallsOf(i))

(* C6 amended: the same, for a character whose modifier byte is exactly 0x06
   and whose virtual key has a scan code (without one the character takes
   the Unicode path and no modifier is sent); it holds at every failure
   point of the character. *)
C6_AltGrPairOnKey ==
    platform = "windows" =>
        \A t \in DOMAIN tasks : \A i \in Sent(tasks[t]) :
            AltGrChar(tasks[t].text[i]) /\ HasScanCode(tasks[t].text[i]) =>
                AltGrPair(CallsOf(i))

\* an AltGr character was sent and the key-up of its tap failed
C6_Witness ==
    /\ platform = "windows"
    /\ \E t \in DOMAIN tasks : \E i \in Sent(tasks[t]) :
         /\ AltGrChar(tasks[t].text[i]) /\ HasScanCode(tasks[t].text[i])
         /\ Len(CallsOf(i)) = 4
         /\ CallsOf(i)[3].inj = 0
         /\ tasks[t].err # NoErr

\* the layout has no key for r, or the key has no scan code
Unmapped(r) == r # LF /\ ~HasScanCode(r)

(* C7: on Windows, a character without a key, or whose key has no scan code,
   is sent with Unicode unit events only, and sendText returns an error at
   such a character only when one of its SendInput calls failed. *)
C7_UnicodeFallback ==
    platform = "windows" =>
        \A t \in DOMAIN tasks : \A i \in Sent(tasks[t]) :
            Unmapped(tasks[t].text[i]) =>
                /\ \A k \in DOMAIN CallsOf(i) : CallsOf(i)[k].kind = "unicode"
                /\ (tasks[t].i = i /\ tasks[t].err # NoErr) =>
                       \E k \in DOMAIN CallsOf(i) : CallsOf(i)[k].inj = 0

(* C8: when a synthesis call made for the character at index i failed,
   sendText has returned an error at i, and once sendText has returned an
   error at i the log holds no event of a later character. *)
C8_ErrorEndsText ==
    \A t \in DOMAIN tasks :
        /\ \A i \in Sent(tasks[t]) :
              (\E k \in DOMAIN CallsOf(i) : CallsOf(i)[k].inj = 0) =>
                  Returned(tasks[t]) /\ tasks[t].i = i /\ tasks[t].err # NoErr
        /\ (Returned(tasks[t]) /\ tasks[t].err # NoErr) =>
              \A k \in DOMAIN log : log[k].idx <= tasks[t].i

\* the step is the completion callback of task t
Completes(t) ==
    /\ t \in DOMAIN tasks
    /\ tasks[t].pc = "posted"
    /\ Len(tasks') < Len(tasks)

\* sendText went through the whole text and returned nil
AllTyped(T) == T.i > Len(T.text) /\ T.err = NoErr

(* C9: the completion callback shows "Typed to: <title>" exactly when
   sendText processed every character, with no stop seen at a check and no
   synthesis error. *)
C9_CompletedIffAllTyped ==
    [][\A t \in 1..MaxTasks :
            Completes(t) =>
                (status'.text \in {"Typed to: ", "Typed clipboard to: "}
                    <=> AllTyped(tasks[t]))]_vars

(* C10: when sendText returned an error, the completion callback shows the
   error status with that error's message. *)
C10_ErrorReported ==
    [][\A t \in 1..MaxTasks :
            Completes(t) /\ tasks[t].err # NoErr =>
                /\ status'.text \in {"Error typing: ", "Error typing clipboard: "}
                /\ status'.err = tasks[t].err]_vars

\* n clamped to [lo, hi]
Clamp(n, lo, hi) == IF n < lo THEN lo ELSE IF n > hi THEN hi ELSE n

\* the delay C11 states for a text of the given size
StatedAutoDelay(runes, lines) ==
    IF runes <= 200 /\ lines <= 5 THEN 0
    ELSE Clamp(IF lines > runes \div 200 THEN lines ELSE runes \div 200, 10, 50)

(* C11: in automatic mode getPerCharDelay returns 0 ms for a text of at most
   200 code points and at most 5 lines, and otherwise the larger of the line
   count and a 200th of the code points, clamped to [10, 50] ms; 150 runes on
   one line give 0, 1000 runes on one line 10, 60 lines of one rune 50. *)
C11_AutoDelay ==
    (delayCall.done /\ delayCall.speed = "Default (Auto)") =>
        /\ delayCall.ms =
               StatedAutoDelay(delayCall.runes + delayCall.newlines,
                               1 + delayCall.newlines)
        /\ (delayCall.runes = 150 /\ delayCall.newlines = 0) => delayCall.ms = 0
        /\ (delayCall.runes = 1000 /\ delayCall.newlines = 0) => delayCall.ms = 10
        /\ (delayCall.runes = 60 /\ delayCall.newlines = 59) => delayCall.ms = 50

\* the delay of 60 lines of one rune has been computed
C11_Witness ==
    /\ delayCall.done
    /\ delayCall.speed = "Default (Auto)"
    /\ delayCall.runes = 60
    /\ delayCall.newlines = 59
    /\ delayCall.ms = 50

\* v holds decimal digits only
AllDigits(v) == \A i \in DOMAIN v : v[i] \in 48..57

\* the number a string of decimal digits denotes
RECURSIVE DecimalValue(_)
DecimalValue(v) ==
    IF v = <<>> THEN 0
    ELSE 10 * DecimalValue(SubSeq(v, 1, Len(v) - 1)) + (v[Len(v)] - 48)

(* C12: in custom mode getPerCharDelay returns min(v, 10000) ms when the
   trimmed entry is a non-negative decimal integer v and 0 ms when it is
   empty or holds any character that is not a digit; the result lies in
   [0, 10000] and the accumulator stays far below the int64 range. *)
C12_CustomDelay ==
    (delayCall.done /\ delayCall.speed = "Custom") =>
        LET v == TrimSpace(delayCall.entry)
        IN  /\ (v # <<>> /\ AllDigits(v)) =>
                   delayCall.ms = IF DecimalValue(v) < CustomMax
                                  THEN DecimalValue(v) ELSE CustomMax
            /\ (v = <<>> \/ ~AllDigits(v)) => delayCall.ms = 0
            /\ delayCall.ms \in 0..CustomMax
            /\ delayCall.peak < 10 * CustomMax + 10


(* the key events the calls cs hand to the OS, in order: a SendInput call of
   two events is a key-down followed by the key-up of the same unit *)
RECURSIVE EventsOf(_)
EventsOf(cs) ==
    IF cs = <<>> THEN <<>>
    ELSE LET c == Head(cs)
             e == [kind |-> c.kind, code |-> c.code, down |-> c.down]
         IN  (IF c.req = 2 THEN <<e, [e EXCEPT !.down = FALSE]>> ELSE <<e>>)
             \o EventsOf(Tail(cs))

UnitTap(u) ==
    <<[kind |-> "unicode", code |-> u, down |-> TRUE],
      [kind |-> "unicode", code |-> u, down |-> FALSE]>>

\* the surrogate pair of a code point above 0xFFFF, as C13 states it
SurrogateTaps(r) ==
    UnitTap(55296 + ((r - 65536) \div 1024)) \o UnitTap(56320 + ((r - 65536) % 1024))

(* C13 as the spec states it: every code point above 0xFFFF is sent as
   exactly two Unicode unit events, the high surrogate then the low one, each
   a press followed by a release, and with no key of the layout. *)
C13_SurrogatePair ==
    \A t \in DOMAIN tasks : \A i \in Sent(tasks[t]) :
        tasks[t].text[i] > 65535 => EventsOf(CallsOf(i)) = SurrogateTaps(tasks[t].text[i])

(* C13 amended: the same, for a code point above 0xFFFF whose synthesis
   returned no error (a failed call ends the character after at most one
   unit). *)
C13_SurrogatePairSent ==
    \A t \in DOMAIN tasks : \A i \in Sent(tasks[t]) :
        (tasks[t].text[i] > 65535 /\ i < tasks[t].i) =>
            EventsOf(CallsOf(i)) = SurrogateTaps(tasks[t].text[i])

\* U+10061 was sent on Windows as the units D800 and DC61
C13_Witness ==
    /\ platform = "windows"
    /\ \E t \in DOMAIN tasks :
         /\ tasks[t].text = <<65633>>
         /\ tasks[t].i = 2
         /\ EventsOf(log) = UnitTap(55296) \o UnitTap(56417)


\* a key event with its flags
KeyEvent(kind, code, ext, down) == [kind |-> kind, code |-> code, ext |-> ext, down |-> down]

EventOfCall(c) == KeyEvent(c.kind, c.code, c.ext, c.down)

\* the modifier presses C14 states for the mask M, in order
StatedPresses(M) ==
    (IF M % 2 = 1 THEN <<KeyEvent("vk", vkShift, FALSE, TRUE)>> ELSE <<>>)
    \o (IF (M \div 2) % 2 = 1 /\ (M \div 4) % 2 = 1
        THEN <<KeyEvent("scan", scRightAlt, TRUE, TRUE)>>
        ELSE (IF (M \div 2) % 2 = 1 THEN <<KeyEvent("vk", vkControl, FALSE, TRUE)>> ELSE <<>>)
             \o (IF (M \div 4) % 2 = 1 THEN <<KeyEvent("vk", vkMenu, FALSE, TRUE)>>
                 ELSE <<>>))

\* the releases of the presses ps, last pressed first
ReleasedInReverse(ps) ==
    [k \in 1..Len(ps) |-> [ps[Len(ps) + 1 - k] EXCEPT !.down = FALSE]]

\* every SendInput call made for the character at index i injected its events
AllInjected(i) == \A k \in DOMAIN CallsOf(i) : CallsOf(i)[k].inj = CallsOf(i)[k].req

\* the events of the character at index i are adjacent in the log
Contiguous(i) ==
    \A a, b, c \in DOMAIN log :
        (a < b /\ b < c /\ log[a].idx = i /\ log[c].idx = i) => log[b].idx = i

(* C14: on Windows, a character with a key of scan code K under the modifier
   mask M, all of whose SendInput calls succeed, is sent as: Shift down
   (bit 0), AltGr down (bits 1 and 2) or Ctrl down (bit 1) and Alt down
   (bit 2), K down, K up, then the releases of exactly these modifiers in the
   reverse order of their presses; no event of another character lies in
   between. *)
C14_MappedSequence ==
    platform = "windows" =>
        \A t \in DOMAIN tasks : \A i \in Sent(tasks[t]) :
            LET r  == tasks[t].text[i]
                ks == vkKeyScanEx(r, SystemHKL)
                K  == mapVirtualKeyEx(ks.vk, SystemHKL)
                ps == StatedPresses(ks.shift)
            IN  (r # LF /\ HasScanCode(r) /\ i < tasks[t].i /\ AllInjected(i)) =>
                    /\ [k \in DOMAIN CallsOf(i) |-> EventOfCall(CallsOf(i)[k])]
                           = ps \o <<KeyEvent("scan", K, isExtendedVK(ks.vk), TRUE),
                                     KeyEvent("scan", K, isExtendedVK(ks.vk), FALSE)>>
                                \o ReleasedInReverse(ps)
                    /\ Contiguous(i)

\* a character typed with Shift and Ctrl was sent, every call succeeding
C14_Witness ==
    /\ platform = "windows"
    /\ \E t \in DOMAIN tasks :
         /\ tasks[t].text = <<30>>
         /\ tasks[t].i = 2
         /\ AllInjected(1)
         /\ Len(log) = 6
         /\ EventOfCall(log[5]) = KeyEvent("vk", vkControl, FALSE, FALSE)
         /\ EventOfCall(log[6]) = KeyEvent("vk", vkShift, FALSE, FALSE)


\* the press and the release of a scan code
ScanTap(sc) == <<KeyEvent("scan", sc, FALSE, TRUE), KeyEvent("scan", sc, FALSE, FALSE)>>

\* the scan code C15 states for Enter under the layout hkl
StatedEnterScan(hkl) ==
    IF OSMapVirtualKeyExW(vkReturn, hkl) % 65536 = 0 THEN 28
    ELSE OSMapVirtualKeyExW(vkReturn, hkl) % 65536

\* the events of the pass in keyCall
KeyEvents == [k \in DOMAIN keyCall.run.calls |-> EventOfCall(keyCall.run.calls[k])]

(* C15 as the spec states it: for a newline sendText emits exactly one
   scan-code press/release pair, no Unicode unit and no modifier event; the
   scan code is the layout's for the Return key, or 28 when that is zero. *)
C15_EnterPair ==
    (keyCall.done /\ keyCall.r = LF) =>
        KeyEvents = ScanTap(StatedEnterScan(loadHKLByName(keyCall.layout)))

(* C15 amended: for a newline sendText emits the press of that scan code,
   followed by its release unless the press was not injected, and nothing
   else. *)
C15_EnterPairUnlessPressFails ==
    (keyCall.done /\ keyCall.r = LF) =>
        LET tap == ScanTap(StatedEnterScan(loadHKLByName(keyCall.layout)))
        IN  KeyEvents = IF keyCall.run.calls[1].inj = 0 THEN <<tap[1]>> ELSE tap

\* Enter was sent under a layout that has no scan code for Return
C15_Witness ==
    /\ keyCall.done
    /\ keyCall.r = LF
    /\ keyCall.layout = "Japanese (JP)"
    /\ keyCall.run.err = NoErr
    /\ KeyEvents = ScanTap(scEnterDefault)


(* C16: the (handle, title) pair a Type command has read is the initial pair
   or a pair one tracker update wrote; a handle of one update never comes
   with the title of another, however the tracker's writes and the handler's
   reads interleave. *)
C16_ConsistentPair ==
    reader.pc \in {"runlock", "idle"} => <<reader.curH, reader.curTitle>> \in tracker.wrote

\* a Type command read the pair of a second update while a third one waits for laMu
C16_Witness ==
    /\ reader.pc = "runlock"
    /\ tracker.pc = "lock"
    /\ reader.curH # NoWindow
    /\ Cardinality(tracker.wrote) = 3
    /\ tracker.hwnd # reader.curH


\* the step is a Type command
Commands == command' # command

\* the label selected is not in the window list
LabelAbsent == command'.selected # NoSelection /\ command'.selected \notin DOMAIN winMap

\* the command found a target and the OS refused to activate it
ActivationFails ==
    /\ ~command'.activated
    /\ IF command'.selected = NoSelection THEN lastActiveHandle # NoWindow
       ELSE command'.selected \in DOMAIN winMap

(* C17: a Type command whose selected label is absent from the window list,
   or whose target the OS does not activate, sends no key event, starts no
   typing task (the handler returns) and shows "Selected window is no longer
   available." *)
C17_InvalidTargetRejected ==
    [][(Commands /\ (LabelAbsent \/ ActivationFails)) =>
            /\ log' = log
            /\ tasks' = tasks
            /\ ui'.pc = "idle"
            /\ status' = Status("Selected window is no longer available.")]_vars


\* a <= b in the order of the code points
LexLeq(a, b) ==
    \/ Len(a) <= Len(b) /\ SubSeq(b, 1, Len(a)) = a
    \/ \E k \in 1..Len(a) :
          /\ k <= Len(b)
          /\ SubSeq(a, 1, k - 1) = SubSeq(b, 1, k - 1)
          /\ a[k] < b[k]

\* refreshWindows has called enumWindows
Refreshed == status = Status("Found %d windows.")

(* C18: in every result of enumWindows the lower-cased titles of adjacent
   entries do not decrease, and the result holds each window that passed the
   filter once and nothing else. *)
C18_SortedPermutation ==
    Refreshed =>
        /\ \A k \in 1..(Len(wins) - 1) :
              LexLeq(ToLower(wins[k].Title), ToLower(wins[k + 1].Title))
        /\ {wins[k].Hwnd : k \in DOMAIN wins} = {h \in desktop : EnumKeeps(h)}
        /\ Cardinality({wins[k].Hwnd : k \in DOMAIN wins}) = Len(wins)

\* "nano" stands before "Term" and "TERM", after " Ed " and "Mail"
C18_Witness ==
    /\ Refreshed
    /\ Len(wins) = 5
    /\ wins[1].Hwnd = 3
    /\ wins[3].Hwnd = 7
    /\ wins[4].Hwnd = 8
    /\ wins[5].Hwnd = 2

\* the window has none of the faults C19 lists
Listable(h) ==
    /\ OSWindowVisible(h)
    /\ TrimSpace(OSWindowText(h)) # <<>>
    /\ \A sub \in ignoredTitleSubstringsLower : ~Contains(ToLower(OSWindowText(h)), sub)
    /\ OSWindowExe(h) \notin ({selfExeLower} \cup ignoredProcessNamesLower)

(* C19: on Windows, enumWindows returns no window that is invisible, has an
   empty or blank title, has a title containing an ignored substring in any
   case, or belongs to goclip or an ignored process; and it returns every
   window of the desktop with none of these faults. *)
C19_FilterExact ==
    (platform = "windows" /\ Refreshed) =>
        {wins[k].Hwnd : k \in DOMAIN wins} = {h \in desktop : Listable(h)}

\* of a desktop holding every window, the five listable ones are returned
C19_Witness ==
    /\ platform = "windows"
    /\ Refreshed
    /\ desktop = OSWindows
    /\ {wins[k].Hwnd : k \in DOMAIN wins} = {2, 3, 6, 7, 8}


\* the title substrings the build ignores (the macOS list is empty)
IgnoredSubstrings == IF platform = "windows" THEN ignoredTitleSubstringsLower ELSE {}

\* a window the tracker may record: not goclip's, titled, no ignored substring
Recordable(h) ==
    /\ h # WinSelf
    /\ OSWindowExe(h) # selfExeLower
    /\ TrimSpace(OSWindowText(h)) # <<>>
    /\ \A sub \in IgnoredSubstrings : ~Contains(ToLower(OSWindowText(h)), sub)

\* the tracker is about to look at a window of goclip itself
OwnWindowSeen ==
    /\ tracker.pc = "idle"
    /\ IF platform = "darwin" THEN foreground = WinSelf
       ELSE fgEvents # <<>> /\ Head(fgEvents) = WinSelf

(* C20: the last-active window the tracker has recorded is 'none' or a window
   that is not goclip's own, has a title that is not empty and contains no
   ignored substring; when the tracker sees a window of goclip itself the
   recorded pair stays as it is. *)
C20_RecordedWindowAccepted ==
    /\ [](lastActiveHandle = NoWindow \/ Recordable(lastActiveHandle))
    /\ [][OwnWindowSeen =>
             /\ tracker'.pc = "idle"
             /\ lastActiveHandle' = lastActiveHandle
             /\ lastActiveTitle' = lastActiveTitle]_vars

(* C21: loadHKLByName answers with the current system layout, and does not
   call LoadKeyboardLayoutW, for "Auto (Use System)", for the empty name and
   for every name its table does not hold; for a name of the table it loads
   the layout of that name's KLID, and no two names of the table share a
   KLID. *)
TableNames == DOMAIN klid

C21_LayoutByName ==
    hklCall.done =>
        IF hklCall.name \in {"Auto (Use System)", ""} \/ hklCall.name \notin TableNames
        THEN /\ hklCall.call.proc = "GetKeyboardLayout"
             /\ hklCall.call.hkl = SystemHKL
        ELSE /\ hklCall.call.proc = "LoadKeyboardLayoutW"
             /\ hklCall.call.arg = klid[hklCall.name]
             /\ \A m \in TableNames \ {hklCall.name} : klid[m] # hklCall.call.arg

C21_Witness ==
    /\ hklCall.done
    /\ hklCall.name = "Swiss French (FR-CH)"
    /\ hklCall.call = LoadKeyboardLayoutW("0000100C")

(* C22: on macOS every character other than the newline that the layout
   cache does not hold is sent by sendChar, as Unicode unit events, and with
   no key code. *)
C22_AbsentGoesUnicode ==
    platform = "darwin" =>
        \A t \in DOMAIN tasks : \A i \in Sent(tasks[t]) :
            (tasks[t].text[i] # LF /\ tasks[t].text[i] \notin DOMAIN layoutMap) =>
                \A k \in DOMAIN CallsOf(i) : CallsOf(i)[k].kind = "unicode"

(* the reference US ANSI layout C23 names: <<key code, character of the key
   alone, character of the key with Shift>> *)
USANSI ==
    {<<0, 97, 65>>, <<1, 115, 83>>, <<2, 100, 68>>, <<3, 102, 70>>, <<4, 104, 72>>,
     <<5, 103, 71>>, <<6, 122, 90>>, <<7, 120, 88>>, <<8, 99, 67>>, <<9, 118, 86>>,
     <<11, 98, 66>>, <<12, 113, 81>>, <<13, 119, 87>>, <<14, 101, 69>>,
     <<15, 114, 82>>, <<16, 121, 89>>, <<17, 116, 84>>, <<18, 49, 33>>,
     <<19, 50, 64>>, <<20, 51, 35>>, <<21, 52, 36>>, <<22, 54, 94>>, <<23, 53, 37>>,
     <<24, 61, 43>>, <<25, 57, 40>>, <<26, 55, 38>>, <<27, 45, 95>>, <<28, 56, 42>>,
     <<29, 48, 41>>, <<30, 93, 125>>, <<31, 111, 79>>, <<32, 117, 85>>,
     <<33, 91, 123>>, <<34, 105, 73>>, <<35, 112, 80>>, <<37, 108, 76>>,
     <<38, 106, 74>>, <<39, 39, 34>>, <<40, 107, 75>>, <<41, 59, 58>>,
     <<42, 92, 124>>, <<43, 44, 60>>, <<44, 47, 63>>, <<45, 110, 78>>,
     <<46, 109, 77>>, <<47, 46, 62>>, <<49, 32, 32>>, <<50, 96, 126>>}

\* the characters the key code types under the reference layout (one, or none)
USANSIChar(code, shift) == {IF shift THEN e[3] ELSE e[2] : e \in {x \in USANSI : x[1] = code}}

IsShift(c) == c.kind = "key" /\ c.code = kVK_Shift

IsOption(c) == c.kind = "key" /\ c.code = kVK_Option

\* whether the modifier is down when the k-th call of cs is posted
HeldAt(cs, k, IsMod(_)) ==
    Cardinality({j \in 1..(k - 1) : IsMod(cs[j]) /\ cs[j].down})
        > Cardinality({j \in 1..(k - 1) : IsMod(cs[j]) /\ ~cs[j].down})

\* the <<key code, Shift>> pairs of the key presses among the calls cs
PairsOf(cs) ==
    {<<cs[k].code, HeldAt(cs, k, IsShift)>> :
        k \in {j \in DOMAIN cs : cs[j].kind = "key" /\ cs[j].down
                                  /\ ~IsShift(cs[j]) /\ ~IsOption(cs[j])}}

\* the pair sendASCIICharUS emits for r when every event is created
USPair(r) ==
    PairsOf(sendASCIICharUS(EmptyRun, [k \in 1..MaxCalls |-> "ok"], r).run.calls)

PrintableASCII == 32..126

(* C23: for every printable ASCII character sendASCIICharUS handles, the key
   it presses, with Shift held or not as it holds it and Option never held,
   types that character under the reference US ANSI layout, and no other
   printable ASCII character is sent as the same key with the same Shift. *)
C23_USRoundTrip ==
    (asciiCall.done /\ asciiCall.handled /\ asciiCall.r \in PrintableASCII) =>
        LET cs == asciiCall.run.calls
        IN  /\ \A k \in DOMAIN cs : ~IsOption(cs[k])
            /\ \A p \in PairsOf(cs) : USANSIChar(p[1], p[2]) = {asciiCall.r}
            /\ ~Failed(asciiCall.run) => PairsOf(cs) = USPair(asciiCall.r)
            /\ Cardinality(USPair(asciiCall.r)) = 1
            /\ \A q \in PrintableASCII \ {asciiCall.r} : USPair(q) # USPair(asciiCall.r)

\* '~' was sent as key 50 between a press and a release of Shift
C23_Witness ==
    /\ asciiCall.done
    /\ asciiCall.handled
    /\ asciiCall.r = 126
    /\ ~Failed(asciiCall.run)
    /\ EventsOf(asciiCall.run.calls) =
           <<[kind |-> "key", code |-> kVK_Shift, down |-> TRUE],
             [kind |-> "key", code |-> 50, down |-> TRUE],
             [kind |-> "key", code |-> 50, down |-> FALSE],
             [kind |-> "key", code |-> kVK_Shift, down |-> FALSE]>>

\* the statuses of the three terminal outcomes: Cancelled, Failed, Completed
Cancelled == status = Status("Typing stopped by user.")

FailedOutcome ==
    /\ status.text \in {"Error typing: ", "Error typing clipboard: "}
    /\ status.err # ""

Completed ==
    /\ status.text \in {"Typed to: ", "Typed clipboard to: "}
    /\ status.err = ""

\* the UI after a session: the Type buttons shown, the stop flag cleared
BackToIdle == buttons = "type" /\ ~typingStopRequested /\ ui.pc = "idle"

(* C24: when the typing goroutine and the UI thread are scheduled fairly, a
   session that was started is followed by its end: the goroutine is gone,
   the status shows one of Completed, Cancelled, Failed, the Type buttons are
   back and the stop flag is cleared.  The step that ends a session is the
   only one that reports an outcome, it reports one, and key events are
   emitted only by a session whose sendText has not returned. *)
C24_SessionEnds ==
    /\ (tasks # <<>>) ~>
           (tasks = <<>> /\ BackToIdle /\ (Cancelled \/ FailedOutcome \/ Completed))
    /\ [][(tasks # <<>> /\ Len(tasks') < Len(tasks)) =>
              /\ BackToIdle'
              /\ Cardinality({x \in {"cancelled", "failed", "completed"} :
                      \/ x = "cancelled" /\ Cancelled'
                      \/ x = "failed" /\ FailedOutcome'
                      \/ x = "completed" /\ Completed'}) = 1]_vars
    /\ [][(log' # log /\ log' # <<>>) =>
              \E t \in DOMAIN tasks : tasks[t].pc = "send" /\ tasks'[t].pc # "send"]_vars

\* a session has ended Completed and the UI is idle again
C24_Witness ==
    /\ tasks = <<>>
    /\ Completed
    /\ BackToIdle
    /\ status.title # <<>>

\* the calls of the pass in keyCall before the k-th all injected their events
InjectedBefore(k) ==
    \A j \in 1..(k - 1) : keyCall.run.calls[j].inj = keyCall.run.calls[j].req

(* C25: in sendCharPhysical, when every modifier press succeeded and tapScan
   then fails (at the key-down, or at the key-up), sendCharPhysical returns
   the error, and before it does it issues one release for each modifier it
   pressed, and nothing else. *)
C25_ReleasedAfterTapError ==
    (keyCall.done /\ keyCall.r # LF) =>
        LET hkl == loadHKLByName(keyCall.layout)
            ks  == vkKeyScanEx(keyCall.r, hkl)
            K   == mapVirtualKeyEx(ks.vk, hkl)
            ps  == StatedPresses(ks.shift)
            cs  == keyCall.run.calls
        IN  (ks.ok /\ K # 0) =>
                \A k \in DOMAIN cs :
                    (/\ k \in {Len(ps) + 1, Len(ps) + 2}
                     /\ InjectedBefore(k)
                     /\ cs[k].inj = 0) =>
                        /\ keyCall.run.err = ErrSendInput
                        /\ keyCall.run.sleeps = 0
                        /\ Len(cs) = k + Len(ps)
                        /\ \A p \in DOMAIN ps :
                              /\ KeyEvents[p] = ps[p]
                              /\ \E j \in (k + 1)..Len(cs) :
                                    KeyEvents[j] = [ps[p] EXCEPT !.down = FALSE]

\* Shift and Ctrl were pressed, the key-down failed, Ctrl and Shift were released
C25_Witness ==
    /\ keyCall.done
    /\ keyCall.r = 30
    /\ keyCall.layout = "Auto (Use System)"
    /\ keyCall.run.err = ErrSendInput
    /\ Len(keyCall.run.calls) = 5
    /\ keyCall.run.calls[3].kind = "scan"
    /\ keyCall.run.calls[3].inj = 0
    /\ KeyEvents[1] = KeyEvent("vk", vkShift, FALSE, TRUE)
    /\ KeyEvents[2] = KeyEvent("vk", vkControl, FALSE, TRUE)
    /\ KeyEvents[4] = KeyEvent("vk", vkControl, FALSE, FALSE)
    /\ KeyEvents[5] = KeyEvent("vk", vkShift, FALSE, FALSE)

\* the events of the modifier key code posted among the calls cs, down or up
PostedOf(cs, code, down) ==
    {k \in DOMAIN cs : cs[k].kind = "key" /\ cs[k].code = code /\ cs[k].down = down}

(* C26: on macOS, whenever sendKeyPressWithMods has returned for a character,
   with or without an error, each of Shift and Option whose key-down event it
   posted has had its key-up event posted. *)
C26_ModifiersReleased ==
    platform = "darwin" =>
        \A t \in DOMAIN tasks : \A i \in Sent(tasks[t]) :
            \A code \in {kVK_Shift, kVK_Option} :
                Cardinality(PostedOf(CallsOf(i), code, TRUE))
                    = Cardinality(PostedOf(CallsOf(i), code, FALSE))

(* the key events the OS injected for the calls cs, in order: of a SendInput
   call of two events the key-down is injected first *)
RECURSIVE InjectedOf(_)
InjectedOf(cs) ==
    IF cs = <<>> THEN <<>>
    ELSE LET c == Head(cs)
             e == KeyEvent(c.kind, c.code, c.ext, c.down)
         IN  (IF c.inj >= 1 THEN <<e>> ELSE <<>>)
             \o (IF c.req = 2 /\ c.inj = 2 THEN <<[e EXCEPT !.down = FALSE]>> ELSE <<>>)
             \o InjectedOf(Tail(cs))

\* every key and modifier the events es press is released by them as often
AllReleased(es) ==
    \A k \in DOMAIN es :
        Cardinality({j \in DOMAIN es : es[j] = [es[k] EXCEPT !.down = TRUE]})
            = Cardinality({j \in DOMAIN es : es[j] = [es[k] EXCEPT !.down = FALSE]})

\* the session of task T ends Cancelled: its callback will report the stop
EndsCancelled(T) == T.pc = "posted" /\ T.canceled

(* C27: no event of a code point is emitted before the stop check made for
   it, and whenever a session ends Cancelled every modifier and key that was
   pressed during the session has been released. *)
C27_CancelledReleased ==
    \A t \in DOMAIN tasks :
        /\ tasks[t].pc = "send" => CallsOf(tasks[t].i) = <<>>
        /\ EndsCancelled(tasks[t]) => AllReleased(InjectedOf(log))

\* task t takes a step while the stop flag is set
StepsStopped(t) ==
    /\ typingStopRequested
    /\ t \in DOMAIN tasks
    /\ tasks[t].pc \in {"loop", "send"}
    /\ t \in DOMAIN tasks'
    /\ tasks'[t] # tasks[t]

(* C28: once a stop was requested, sendText returns at its next stop check;
   the character that was past its check when the request came is still
   sent, and the task sleeps one per-character delay at most in doing so. *)
C28_PromptStop ==
    [][\A t \in 1..MaxTasks :
          StepsStopped(t) =>
              /\ tasks[t].pc = "loop" =>
                     (tasks'[t].pc = "returned" /\ log' = log)
              /\ tasks[t].pc = "send" =>
                     /\ tasks'[t].sleeps - tasks[t].sleeps <= 1
                     /\ \A k \in (Len(log) + 1)..Len(log') : log'[k].idx = tasks[t].i]_vars

(* C29: no thread is inside an OS call while it holds a lock of the core;
   for buildLayoutMapping: it is not inside mapRuneToKey, the layout
   translation, while it holds layoutMapMu. *)
C29_NoOSCallUnderLock == build.pc = "translate" => ~build.holds

\* the application the tick in progress sampled is goclip itself, by its name
SampledSelf == ToLower(OSWindowText(tracker.hwnd)) = selfAppNameLower

(* C30: on macOS the stored PID and the label change only in a tick that
   sampled an application other than goclip whose PID is not the stored one,
   and they become that application's PID and name; a tick that sampled
   goclip itself goes no further than the sample, and a tick that finds its
   PID stored already unlocks without a write. *)
C30_EdgeTriggered ==
    [][platform = "darwin" =>
          /\ lastActiveHandle' # lastActiveHandle =>
                 /\ tracker.pc = "locked"
                 /\ tracker.hwnd > 0
                 /\ ~SampledSelf
                 /\ tracker.hwnd # lastActiveHandle
                 /\ lastActiveHandle' = tracker.hwnd
          /\ lastActiveTitle' # lastActiveTitle =>
                 /\ tracker.pc = "handle"
                 /\ ~SampledSelf
                 /\ lastActiveHandle = tracker.hwnd
                 /\ lastActiveTitle' = truncateRunes(OSWindowText(tracker.hwnd), TitleLimit)
          /\ (tracker.pc = "idle" /\ foreground = WinSelf) => tracker'.pc = "idle"
          /\ (tracker.pc = "locked" /\ tracker.hwnd = lastActiveHandle
              /\ tracker' # tracker) =>
                 /\ tracker'.pc = "unlock"
                 /\ lastActiveHandle' = lastActiveHandle
                 /\ lastActiveTitle' = lastActiveTitle
          /\ tracker.pc = "handle" => tracker.hwnd = lastActiveHandle]_vars

\* Ed was recorded after Term, and a later tick that sampled Ed again is unlocking
C30_Witness ==
    /\ platform = "darwin"
    /\ tracker.pc = "unlock"
    /\ tracker.hwnd = 3
    /\ lastActiveHandle = 3
    /\ lastActiveTitle = OSWindowText(3)
    /\ {<<2, OSWindowText(2)>>, <<3, OSWindowText(3)>>} \subseteq tracker.wrote
    /\ foreground = WinSelf

\* ------------------------------------------------------------------- C31

\* the state of the session: Running while a typing task exists
SessionState ==
    IF tasks # <<>> THEN "Running"
    ELSE IF ui.pc = "settle" THEN "Activating"
    ELSE "Idle"

(* C31: a session goes Idle, Activating, Running, terminal.  The handler
   enters the settle delay only from idle and with the activation call on its
   target made; a typing task is started only by the handler that has slept
   the settle delay, for the window that handler activated; key events are
   emitted only by a typing task that was started; and a running session
   ends only back to idle. *)
C31_SessionOrder ==
    [][/\ SessionState' # SessionState =>
              <<SessionState, SessionState'>> \in
                  {<<"Idle", "Activating">>, <<"Activating", "Running">>,
                   <<"Activating", "Idle">>, <<"Running", "Idle">>}
       /\ (SessionState = "Idle" /\ SessionState' = "Activating") =>
              /\ ui'.hwnd # NoWindow
              /\ platform = "darwin" => foreground' = ui'.hwnd
       /\ Len(tasks') > Len(tasks) =>
              /\ ui.pc = "settle"
              /\ tasks'[Len(tasks')].hwnd = ui.hwnd
              /\ tasks'[Len(tasks')].i = 1
              /\ log' = <<>>
       /\ (log' # log /\ log' # <<>>) =>
              /\ SessionState = "Running"
              /\ \E t \in DOMAIN tasks : tasks[t].pc = "send"]_vars

\* a session that was activated and settled has emitted key events
C31_Witness ==
    /\ SessionState = "Running"
    /\ ui.pc = "idle"
    /\ log # <<>>
    /\ tasks[1].i > 1
    /\ foreground = tasks[1].hwnd

\* ------------------------------------------------------------------- C32

(* C32: after every call of startForegroundWatcher or stopForegroundWatcher,
   a hook installed with the OS means a callback reference that is not zero;
   after stopForegroundWatcher no hook of the process is installed and the
   hook handle and the callback reference are zero; and a
   stopForegroundWatcher that follows a stopForegroundWatcher changes
   nothing of the three. *)
C32_HookLifetime ==
    [][watch' # watch =>
          /\ watch'.installed # {} => foregroundCallbackRef' # 0
          /\ watch'.last = "stop" =>
                 /\ watch'.installed = {}
                 /\ foregroundEventHook' = 0
                 /\ foregroundCallbackRef' = 0
          /\ (watch.last = "stop" /\ watch'.last = "stop") =>
                 /\ watch'.installed = watch.installed
                 /\ foregroundEventHook' = foregroundEventHook
                 /\ foregroundCallbackRef' = foregroundCallbackRef]_vars

\* ------------------------------------------------------------------- C33

\* every goroutine's Update has returned
UpdatesReturned == \A u \in 1..MaxUpdaters : config.upd[u].pc = "returned"

(* C33: once the Update calls have all returned, and they modified different
   fields, the configuration Get returns holds the modification of each. *)
C33_NoLostUpdate ==
    (/\ UpdatesReturned
     /\ \A u, v \in 1..MaxUpdaters : u # v => config.upd[u].fn # config.upd[v].fn)
    => \A u \in 1..MaxUpdaters : Modify(config.upd[u].fn, Get) = Get

\* ------------------------------------------------------------------- C34

\* Load has returned without an error
Loaded == config.loaded /\ config.err = NoErr

(* C34: a Load that returned an error left the configuration in memory as it
   was, and it returns one exactly when the file is unreadable or is not
   JSON; a Load that found no file set the configuration to DefaultConfig;
   after a Load without error CustomSpeedMs is within [0, 10000] and
   DefaultSpeedOption, KeyboardLayout and CompatibilityMode are not empty. *)
C34_LoadValidates ==
    config.loaded =>
        /\ config.err # NoErr <=> config.file.kind \in {"unreadable", "invalid"}
        /\ config.err # NoErr => Get = config.was
        /\ config.file.kind = "missing" => Get = DefaultConfig
        /\ config.err = NoErr =>
               /\ Get.CustomSpeedMs >= 0
               /\ Get.CustomSpeedMs <= 10000
               /\ Get.DefaultSpeedOption # ""
               /\ Get.KeyboardLayout # ""
               /\ Get.CompatibilityMode # ""

\* a file with a speed above the clamp and no layout was loaded over a changed configuration
C34_Witness ==
    /\ Loaded
    /\ config.file.kind = "json"
    /\ config.file.obj.customSpeedMs = <<10001>>
    /\ config.file.obj.keyboardLayout = <<"">>
    /\ config.file.obj.compatibilityMode = <<>>
    /\ config.was # DefaultConfig
    /\ Get.CustomSpeedMs = 10000
    /\ Get.KeyboardLayout = "Auto (Use System)"

\* ------------------------------------------------------------------- C35

(* C35: a typing task is started with the stop flag false; the flag is false
   when the completion callback of a session has run; and the flag is set
   only while a session is running, by its Stop button.  So a stop request
   reaches the session it was made in and no later one. *)
C35_StopStaysInSession ==
    [][/\ Len(tasks') > Len(tasks) => ~typingStopRequested'
       /\ Len(tasks') < Len(tasks) => ~typingStopRequested'
       /\ (typingStopRequested' /\ ~typingStopRequested) =>
              /\ tasks # <<>>
              /\ tasks' = tasks
              /\ buttons = "stop"
       /\ (tasks = <<>> /\ ~typingStopRequested) => ~typingStopRequested']_vars

\* the next session is settling after one that was stopped, the flag cleared
C35_Witness ==
    /\ status = Status("Typing stopped by user.")
    /\ ui.pc = "settle"
    /\ tasks = <<>>
    /\ ~typingStopRequested

\* ------------------------------------------------------------------- C36

(* C36: after refreshWindows, the k-th label of the option list, looked up
   in winMap, is the k-th window of the enumeration, the one the label was
   made from. *)
C36_LabelTargetsItsWindow ==
    listing.done =>
        \A k \in 1..Len(listing.winOptions) :
            LET hit == Lookup(listing.winMap, listing.winOptions[k])
            IN  /\ hit.ok
                /\ hit.wi = listing.wins[k]

\* ------------------------------------------------------------------- C37

\* a SendInput call that injected fewer events than it asked for
Short(c) == c.inj < c.req

\* a modifier release, whose error sendCharPhysical does not read
IsRelease(c) == IsModifierCall(c) /\ ~c.down

(* C37: a pass of the sendText loop in which a SendInput call injected fewer
   events than requested ends with an error (the calls of releaseModifiers,
   whose errors the caller drops, set aside): the primitive that made the
   call returned an error. *)
C37_ShortInjectionFails ==
    keyCall.done =>
        \A k \in 1..Len(keyCall.run.calls) :
            (Short(keyCall.run.calls[k]) /\ ~IsRelease(keyCall.run.calls[k]))
                => Failed(keyCall.run)

\* ------------------------------------------------------------------- C38

\* the text with each CR LF pair replaced by a single LF, left to right
RECURSIVE ReplacedCRLF(_)
ReplacedCRLF(text) ==
    IF Len(text) < 2 THEN text
    ELSE IF SubSeq(text, 1, 2) = <<CR, LF>>
    THEN <<LF>> \o ReplacedCRLF(SubSeq(text, 3, Len(text)))
    ELSE <<text[1]>> \o ReplacedCRLF(SubSeq(text, 2, Len(text)))

\* the number of newline characters of the text
Newlines(text) == Cardinality({k \in DOMAIN text : text[k] = LF})

(* the presses of the Enter key the session has emitted: of the Return key's
   scan code (Windows), of kVK_Return (macOS) *)
EnterPresses ==
    {k \in DOMAIN log :
        /\ log[k].down
        /\ log[k].inj >= 1
        /\ IF platform = "windows"
           THEN /\ log[k].kind = "scan"
                /\ ~log[k].ext
                /\ log[k].code = StatedEnterScan(loadHKLByName("Auto (Use System)"))
           ELSE log[k].kind = "key" /\ log[k].code = kVK_Return}

(* C38: when sendText has gone through the whole text without an error, the
   Enter taps it emitted are as many as the newline characters of the input
   text after each CR LF pair is replaced by a single LF; so a CR LF pair
   gives one Enter tap. *)
C38_EnterPerNewline ==
    \A t \in DOMAIN tasks :
        (Returned(tasks[t]) /\ AllTyped(tasks[t])) =>
            Cardinality(EnterPresses) = Newlines(ReplacedCRLF(tasks[t].input))

\* ------------------------------------------------------------------- C39

(* C39: for a code IsSupported accepts, Labels returns the label set of the
   language ResolveCode names; for any other code it returns the label set
   of the default language, English. *)
C39_LabelsOfResolved ==
    langCall.done =>
        IF langCall.supported
        THEN langCall.labels = languageMap[langCall.resolved].labels
        ELSE langCall.labels = "English"

====
